---- MODULE Spec2Model ----
(***************************************************************************)
(* moco: run records (internal/utils/summary.go) and the run orchestrator  *)
(* (internal/run/run.go, main.go).                                         *)
(*                                                                         *)
(* Text is a sequence of symbols.  A symbol is one byte (a backtick, a     *)
(* line feed, a digit, ...) or a literal the program writes or matches as  *)
(* a whole (a label such as "- **Branch**: ", a heading).  Instants are    *)
(* microseconds since an epoch that lies on a whole second.                *)
(***************************************************************************)
EXTENDS Integers, Sequences, FiniteSets, TLC

VARIABLES
    file,       \* codec: the record file, [exists, content]
    phase,      \* codec: "none", "init", "end", "given"; "idle" while Main runs
    initArgs,   \* codec: arguments of the WriteSummaryFileInit call that wrote the file
    endArgs,    \* codec: arguments of the WriteSummaryFileEnd call that appended to it
    parsed,     \* codec: <<>> or <<r>>, r the RunInfo and error of the last ParseRunInfo
    writeErr,   \* codec: error text of the last write call ("" is nil)
    pc,         \* run: where Main (and then main) stands
    cfg,        \* run: config.Get(): Force, CleanupOnFail, BaseDirSet
    repoSt,     \* run: what utils.GetRepoStatus answers: ok, IsDirty
    fs,         \* run: baseDir, expDir, summary, stdoutFile, stderrFile
    child,      \* run: the child process: state, status
    waiter,     \* run: the goroutine around cmd.Wait: pc, err
    doneChan,   \* run: messages in doneChan
    signalChan, \* run: signals in signalChan
    nsig,       \* run: signals sent to the moco process so far
    loc,        \* run: locals of Main: startTime, exitCode, interrupted
    ret,        \* run: the error Main returns ("" is nil)
    procExit,   \* run: exit code of the moco process, -1 while it runs
    hist,       \* run: history: what Main created, which case select took, ...
    disk,       \* tools: the base directory and what is in it, the time zone
    tool        \* tools: the call of list, status, archive in progress or done

codecVars == <<file, phase, initArgs, endArgs, parsed, writeErr>>
runVars == <<pc, cfg, repoSt, fs, child, waiter, doneChan, signalChan, nsig, loc,
             ret, procExit, hist>>
toolVars == <<disk, tool>>
vars == <<codecVars, runVars, toolVars>>

----------------------------------------------------------------------------
(* Symbols *)

NL == "\n"
CR == "\r"
\* The byte 0x60, the backtick.
BT == "<backtick>"
SP == " "
\* A run of bytes without a line break that is longer than bufio.MaxScanTokenSize
\* (64 KiB), the largest line the default bufio.Scanner returns.
LongRun == "<more than 65536 bytes without a line break>"

LblStart    == "- **Execution datetime**: "
LblBranch   == "- **Branch**: "
LblHash     == "- **Commit hash**: "
LblCommand  == "- **Command**: "
LblHostname == "- **Hostname**: "
LblWorkdir  == "- **Working directory**: "
LblFinished == "- **Execution finished**: "
LblExecTime == "- **Execution time**: "
LblExit     == "- **Exit status**: "
TermMark    == "**Terminated by user**"

DigitChars == <<"0", "1", "2", "3", "4", "5", "6", "7", "8", "9">>
IsDigit(c) == \E d \in 1..10 : DigitChars[d] = c
DigitVal(c) == (CHOOSE d \in 1..10 : DigitChars[d] = c) - 1

\* Integer division and remainder of Go truncate toward zero.
TDiv(a, b) == IF a >= 0 THEN a \div b ELSE -((-a) \div b)
TMod(a, b) == a - b * TDiv(a, b)

RECURSIVE NatToText(_)
NatToText(n) ==
    IF n < 10 THEN <<DigitChars[n + 1]>>
    ELSE NatToText(n \div 10) \o <<DigitChars[(n % 10) + 1]>>

\* the verb %d of fmt
Itoa(n) == IF n < 0 THEN <<"-">> \o NatToText(-n) ELSE NatToText(n)

RECURSIVE DigitsToNat(_, _)
DigitsToNat(s, acc) ==
    IF s = <<>> THEN acc ELSE DigitsToNat(Tail(s), 10 * acc + DigitVal(Head(s)))

AllDigits(s) == s # <<>> /\ \A i \in 1..Len(s) : IsDigit(s[i])

\* strconv.Atoi: an optional sign, then decimal digits only.
Atoi(s) ==
    LET signed == s # <<>> /\ Head(s) \in {"+", "-"}
        body   == IF signed THEN Tail(s) ELSE s
    IN  IF ~AllDigits(body) THEN [ok |-> FALSE, val |-> 0]
        ELSE [ok |-> TRUE,
              val |-> IF signed /\ Head(s) = "-" THEN -DigitsToNat(body, 0)
                      ELSE DigitsToNat(body, 0)]

\* The zero time.Time, which lies before every instant of the model.
ZeroTime == -1

\* time.Time.Format(time.RFC3339): the layout "2006-01-02T15:04:05Z07:00" has
\* no fractional seconds, so the text names the whole second of the instant.
\* The text of a second is its number followed by the zone designator.
FormatTimestamp(t) == NatToText(t \div 1000000) \o <<"Z">>

\* time.Parse(time.RFC3339, s)
ParseTimestamp(s) ==
    IF Len(s) >= 2 /\ s[Len(s)] = "Z" /\ AllDigits(SubSeq(s, 1, Len(s) - 1))
    THEN [ok |-> TRUE, val |-> DigitsToNat(SubSeq(s, 1, Len(s) - 1), 0) * 1000000]
    ELSE [ok |-> FALSE, val |-> ZeroTime]

\* time.Duration.Round(time.Second), halfway values away from zero; in seconds.
RoundToSeconds(d) ==
    IF d >= 0 THEN (d + 500000) \div 1000000 ELSE -((-d + 500000) \div 1000000)

formatDuration(d) ==
    LET secs    == RoundToSeconds(d)
        hours   == TDiv(secs, 3600)
        minutes == TMod(TDiv(secs, 60), 60)
        seconds == TMod(secs, 60)
    IN  IF hours > 0
        THEN Itoa(hours) \o <<"h", SP>> \o Itoa(minutes) \o <<"m", SP>> \o Itoa(seconds) \o <<"s">>
        ELSE IF minutes > 0
        THEN Itoa(minutes) \o <<"m", SP>> \o Itoa(seconds) \o <<"s">>
        ELSE Itoa(seconds) \o <<"s">>

RECURSIVE JoinSpace(_)
\* strings.Join(command, " ")
JoinSpace(args) ==
    IF args = <<>> THEN <<>>
    ELSE IF Len(args) = 1 THEN args[1]
    ELSE args[1] \o <<SP>> \o JoinSpace(Tail(args))

----------------------------------------------------------------------------
(* The record codec: internal/utils/summary.go *)

Fence == <<BT, BT, BT>>

formatGitStatus(repo) ==
    IF ~repo.IsValid THEN <<"Not a valid git repository">>
    ELSE <<"On branch ">> \o repo.Branch \o <<NL>> \o
         (IF repo.IsDirty
          THEN <<"Changes not staged for commit:", NL,
                 "  (use \"git add <file>...\" to update what will be committed)", NL,
                 "  (use \"git restore <file>...\" to discard changes in working directory)", NL,
                 NL,
                 "        modified:   [uncommitted changes present]", NL>>
          ELSE <<"nothing to commit, working tree clean", NL>>)

\* The text WriteSummaryFileInit builds in b and writes to the new file.  env
\* holds what the function reads from its surroundings: hostname, the
\* directory of summaryPath, git show, a second GetRepoStatus, git diff, uname.
WriteSummaryFileInit(startTime, repo, command, env) ==
    <<"# Experiment Summary", NL, NL>> \o
    <<"## Metadata", NL>> \o
    <<LblStart>> \o FormatTimestamp(startTime) \o <<NL>> \o
    <<LblBranch, BT>> \o repo.Branch \o <<BT, NL>> \o
    <<LblHash, BT>> \o repo.FullHash \o <<BT, NL>> \o
    <<LblCommand, BT>> \o JoinSpace(command) \o <<BT, NL>> \o
    <<LblHostname, BT>> \o env.hostname \o <<BT, NL>> \o
    <<LblWorkdir, BT>> \o env.directory \o <<BT, NL>> \o
    <<NL, "## Latest Commit Details", NL>> \o Fence \o <<"diff", NL>> \o
    env.commitDetails \o <<NL>> \o Fence \o <<NL>> \o
    <<NL, "## Git Status", NL>> \o Fence \o <<NL>> \o
    formatGitStatus(env.gitStatus) \o <<NL>> \o Fence \o <<NL>> \o
    <<NL, "## Uncommitted Changes (Diff)", NL>> \o Fence \o <<"diff", NL>> \o
    env.gitDiff \o <<NL>> \o Fence \o <<NL>> \o
    <<NL, "## Environment Info", NL>> \o Fence \o <<NL>> \o
    env.sysInfo \o <<NL>> \o Fence \o <<NL>>

\* The text WriteSummaryFileEnd appends to the file.
WriteSummaryFileEnd(startTime, endTime, exitCode, interrupted) ==
    <<NL, "## Execution Results", NL>> \o
    <<LblFinished>> \o FormatTimestamp(endTime) \o <<NL>> \o
    <<LblExecTime>> \o formatDuration(endTime - startTime) \o <<NL>> \o
    <<LblExit>> \o Itoa(exitCode) \o <<NL>> \o
    (IF interrupted THEN <<"- ", TermMark, NL>> ELSE <<>>)

\* bufio.ScanLines: the text up to each line feed, without one trailing
\* carriage return; an unterminated last line counts when it is not empty.
dropCR(line) ==
    IF line # <<>> /\ line[Len(line)] = CR THEN SubSeq(line, 1, Len(line) - 1) ELSE line

ScanLines(text) ==
    LET feeds  == {i \in 1..Len(text) : text[i] = NL}
        n      == Cardinality(feeds)
        \* the place of the k-th line feed; 0 before the first line
        feed(k) == IF k = 0 THEN 0
                   ELSE CHOOSE i \in feeds : Cardinality({j \in feeds : j <= i}) = k
        rest   == IF feed(n) < Len(text) THEN 1 ELSE 0
    IN  [k \in 1..(n + rest) |->
            dropCR(SubSeq(text, feed(k - 1) + 1,
                          (IF k <= n THEN feed(k) ELSE Len(text) + 1) - 1))]

\* A line the scanner cannot return: Scan answers false and the loop ends.
TooLong(line) == \E i \in 1..Len(line) : line[i] = LongRun

HasPrefix(line, prefix) ==
    Len(line) >= Len(prefix) /\ SubSeq(line, 1, Len(prefix)) = prefix

Contains(line, sym) == \E i \in 1..Len(line) : line[i] = sym

trimBackticks(s) ==
    IF Len(s) < 2 \/ s[1] # BT \/ s[Len(s)] # BT
    THEN [ok |-> FALSE, val |-> <<>>]
    ELSE [ok |-> TRUE, val |-> SubSeq(s, 2, Len(s) - 1)]

\* RunInfo and the error ParseRunInfo returns beside it ("" is nil).
NewRunInfo ==
    [Command |-> <<>>, StartTime |-> ZeroTime, EndTime |-> ZeroTime,
     ExitStatus |-> 0, IsRunning |-> TRUE, Branch |-> <<>>, CommitHash |-> <<>>,
     Interrupted |-> FALSE, err |-> ""]

\* One pass of the body of the scan loop below the fence test: the chain of
\* strings.CutPrefix tests, in the order of the source.
ParseLine(info, line) ==
    LET after == Tail(line) IN
    IF HasPrefix(line, <<LblStart>>) THEN
        LET t == ParseTimestamp(after) IN
        IF ~t.ok THEN [info EXCEPT !.err = "failed to parse start time"]
        ELSE [info EXCEPT !.StartTime = t.val]
    ELSE IF HasPrefix(line, <<LblBranch>>) THEN
        LET b == trimBackticks(after) IN
        IF ~b.ok THEN [info EXCEPT !.err = "failed to parse branch"]
        ELSE [info EXCEPT !.Branch = b.val]
    ELSE IF HasPrefix(line, <<LblHash>>) THEN
        LET h == trimBackticks(after) IN
        IF ~h.ok THEN [info EXCEPT !.err = "failed to parse commit hash"]
        ELSE [info EXCEPT !.CommitHash = h.val]
    ELSE IF HasPrefix(line, <<LblCommand>>) THEN
        LET c == trimBackticks(after) IN
        IF ~c.ok THEN [info EXCEPT !.err = "failed to parse command"]
        ELSE [info EXCEPT !.Command = c.val]
    ELSE IF HasPrefix(line, <<LblExit>>) THEN
        LET e == Atoi(after) IN
        IF ~e.ok THEN [info EXCEPT !.IsRunning = FALSE, !.err = "failed to parse exit status"]
        ELSE [info EXCEPT !.IsRunning = FALSE, !.ExitStatus = e.val]
    ELSE IF HasPrefix(line, <<LblFinished>>) THEN
        LET t == ParseTimestamp(after) IN
        IF ~t.ok THEN [info EXCEPT !.err = "failed to parse end time"]
        ELSE [info EXCEPT !.EndTime = t.val]
    ELSE IF Contains(line, TermMark) THEN [info EXCEPT !.Interrupted = TRUE]
    ELSE info

RECURSIVE ScanLoop(_, _, _, _)
\* for scanner.Scan() { ... }: the loop ends at the end of the text, at a line
\* the scanner cannot return, or at the first parse error; scanner.Err() is
\* not read.
ScanLoop(lines, i, info, withinCodeBlock) ==
    IF i > Len(lines) \/ TooLong(lines[i]) THEN info
    ELSE LET within == IF HasPrefix(lines[i], Fence) THEN ~withinCodeBlock
                       ELSE withinCodeBlock
         IN  IF within THEN ScanLoop(lines, i + 1, info, within)
             ELSE LET next == ParseLine(info, lines[i])
                  IN  IF next.err # "" THEN next
                      ELSE ScanLoop(lines, i + 1, next, within)

\* f is the file at summaryPath: [exists, content].
ParseRunInfo(f) ==
    IF ~f.exists THEN [NewRunInfo EXCEPT !.err = "failed to open summary file"]
    ELSE ScanLoop(ScanLines(f.content), 1, NewRunInfo, FALSE)

----------------------------------------------------------------------------
(* Inputs of the codec *)

\* Instants handed to the writers: on a whole second, and with a part below
\* the second and below the millisecond.
StartTimes == {1000000, 1250500}
EndTimes   == {1250500, 3000000, 63999999}

FullHash == <<"7a9162c", "4ad32037a036d71e03f5a9262551a7e46">>

\* Branch names git accepts: plain, with a slash, with a backtick.
Branches == {<<"main">>, <<"feat", "/", "x">>, <<"a", BT, "b">>}

RepoOf(branch, dirty) ==
    [IsValid |-> TRUE, IsDirty |-> dirty, Branch |-> branch,
     ShortHash |-> <<FullHash[1]>>, FullHash |-> FullHash]

\* Argument vectors: plain words; a script of two lines; an argument that
\* closes the backtick, holds lines of its own and reopens the backtick.
Commands ==
    {<< <<"sleep">>, <<"5">> >>,
     << <<"sh">>, <<"-c">>, <<"echo a", NL, "echo b">> >>,
     << <<"echo">>, <<"x", BT, NL, LblExit, "0", NL, "- ", TermMark, NL, BT>> >>}

\* What git show prints: an ordinary commit; one whose text has a line that
\* starts with three backticks; one whose diff has a line above 64 KiB.
CommitDetailTexts ==
    {<<"commit 7a9162c", NL, NL, "    fix status string">>,
     <<"commit 7a9162c", NL>> \o Fence \o <<NL, LblExit, "7">>,
     <<"commit 7a9162c", NL, "+", LongRun>>}

EnvOf(repo, commitDetails) ==
    [hostname |-> <<"KS-MBP.local">>,
     directory |-> <<"runs/", "2025-03-24T00:34:51.609_main_7a9162c", "/">>,
     commitDetails |-> commitDetails,
     gitStatus |-> repo,
     gitDiff |-> <<"[No uncommitted changes]", NL>>,
     sysInfo |-> <<"Linux KS-MBP", NL>>]

ExitCodes == {0, 1, 130, -1}

\* Largest number of lines of a record file that was not written by the
\* writers of this module.
MaxGivenLines == 2

GivenLines ==
    {<<LblStart, "1", "Z">>, <<LblStart, "yesterday">>,
     <<LblBranch, BT, "main", BT>>, <<LblBranch, BT, "main">>, <<LblBranch, BT>>,
     <<LblHash, BT, "7a9162c", BT>>, <<LblHash, "7a9162c", BT>>,
     <<LblCommand, BT, "sleep", BT>>, <<LblCommand, "sleep">>,
     <<LblFinished, "2", "Z">>, <<LblFinished>>,
     <<LblExit, "0">>, <<LblExit, "-", "1">>, <<LblExit, "1", "x">>,
     <<BT, BT, BT, "diff">>, <<"+", LongRun>>, <<"- ", TermMark>>}

RECURSIVE JoinLines(_)
JoinLines(lines) ==
    IF lines = <<>> THEN <<>> ELSE Head(lines) \o <<NL>> \o JoinLines(Tail(lines))

GivenFiles ==
    {[exists |-> FALSE, content |-> <<>>]} \cup
    {[exists |-> TRUE, content |-> JoinLines(ls)] :
        ls \in UNION {[1..n -> GivenLines] : n \in 0..MaxGivenLines}}

----------------------------------------------------------------------------
(* The codec as a state machine: the two writers and the reader applied to  *)
(* one path.                                                                *)

NoFile == [exists |-> FALSE, content |-> <<>>]

\* The tool variables while no tool of the list, status or archive commands
\* is exercised.
NoDisk == [zone |-> 0, baseDir |-> "missing", entries |-> <<>>]
NoTool == [op |-> "none"]
ToolIdle == disk = NoDisk /\ tool = NoTool

\* The run variables while only the codec is exercised.
RunIdle ==
    /\ pc = "idle"
    /\ cfg = [Force |-> FALSE, CleanupOnFail |-> FALSE, BaseDirSet |-> TRUE]
    /\ repoSt = [ok |-> TRUE, IsDirty |-> FALSE]
    /\ fs = [baseDir |-> FALSE, expDir |-> "absent", summary |-> NoFile,
             stdoutFile |-> FALSE, stderrFile |-> FALSE]
    /\ child = [state |-> "none", kind |-> "none", code |-> 0]
    /\ waiter = [pc |-> "none", err |-> [kind |-> "nil", code |-> 0]]
    /\ doneChan = <<>>
    /\ signalChan = <<>>
    /\ nsig = 0
    /\ loc = [startTime |-> ZeroTime, exitCode |-> 0, interrupted |-> FALSE]
    /\ ret = ""
    /\ procExit = -1
    /\ hist = [created |-> {}, path |-> "none", childAtSignal |-> "none",
               forwarded |-> FALSE, removedBy |-> "none", childAtRemoval |-> "none",
               results |-> <<>>]

CodecInit ==
    /\ RunIdle
    /\ ToolIdle
    /\ parsed = <<>>
    /\ writeErr = ""
    /\ initArgs = <<>>
    /\ endArgs = <<>>
    /\ \/ file = NoFile /\ phase = "none"
       \/ file \in GivenFiles /\ phase = "given"

\* WriteSummaryFileInit(summaryPath, startTime, repo, command); created says
\* whether os.Create succeeded.
CallWriteSummaryFileInit ==
    /\ phase = "none"
    /\ \E startTime \in StartTimes, branch \in Branches, command \in Commands,
          commitDetails \in CommitDetailTexts, created \in BOOLEAN :
          LET repo == RepoOf(branch, FALSE)
              env  == EnvOf(repo, commitDetails)
          IN  IF created
              THEN /\ file' = [exists |-> TRUE,
                               content |-> WriteSummaryFileInit(startTime, repo, command, env)]
                   /\ phase' = "init"
                   /\ initArgs' = <<[startTime |-> startTime, repo |-> repo,
                                     command |-> command, env |-> env]>>
                   /\ writeErr' = ""
              ELSE /\ writeErr' = "failed to create summary file"
                   /\ UNCHANGED <<file, phase, initArgs>>
    /\ parsed' = <<>>
    /\ UNCHANGED <<endArgs, runVars, toolVars>>

\* WriteSummaryFileEnd(summaryPath, startTime, endTime, exitCode, interrupted):
\* os.OpenFile without O_CREATE fails when the file does not exist.
CallWriteSummaryFileEnd ==
    /\ phase \in {"none", "init"}
    /\ \E endTime \in EndTimes, exitCode \in ExitCodes, interrupted \in BOOLEAN :
          IF ~file.exists
          THEN /\ writeErr' = "failed to open summary file"
               /\ UNCHANGED <<file, phase, endArgs>>
          ELSE LET startTime == initArgs[1].startTime IN
               /\ file' = [file EXCEPT !.content =
                              @ \o WriteSummaryFileEnd(startTime, endTime, exitCode, interrupted)]
               /\ phase' = "end"
               /\ endArgs' = <<[endTime |-> endTime, exitCode |-> exitCode,
                                interrupted |-> interrupted]>>
               /\ writeErr' = ""
    /\ parsed' = <<>>
    /\ UNCHANGED <<initArgs, runVars, toolVars>>

\* ParseRunInfo(summaryPath)
CallParseRunInfo ==
    /\ parsed = <<>>
    /\ parsed' = <<ParseRunInfo(file)>>
    /\ UNCHANGED <<file, phase, initArgs, endArgs, writeErr, runVars, toolVars>>

CodecNext ==
    \/ CallWriteSummaryFileInit
    \/ CallWriteSummaryFileEnd
    \/ CallParseRunInfo

CodecSpec == CodecInit /\ [][CodecNext]_vars

----------------------------------------------------------------------------
(* The run orchestrator: internal/run/run.go, main.go *)

\* Capacity of doneChan and of signalChan.
DoneChanCap == 1
SignalChanCap == 1
\* The exit code Main records for an interrupted command.
ExitInterrupted == 130
\* The exit code Main records when cmd.Wait fails with an error that is no
\* *exec.ExitError.
ExitOtherError == 1
\* The exit code of log.Fatalf.
FatalExit == 1

\* Signals the moco process receives at most, and the largest exit code a
\* child chooses besides 130.
MaxSignals == 2
MaxChildCode == 2

Signals == {"SIGINT", "SIGTERM"}
ChildExitCodes == (0..MaxChildCode) \cup {ExitInterrupted}

ErrGit          == "git repository error"
ErrDirty        == "git repository has uncommitted changes, use --force to run anyway"
ErrNoBaseDir    == "base directory not set in configuration"
ErrMkBaseDir    == "failed to create base directory"
ErrMkExpDir     == "failed to create experiment directory"
ErrWriteSummary == "failed to write summary"
ErrStdoutFile   == "failed to create stdout file"
ErrStderrFile   == "failed to create stderr file"
ErrStart        == "failed to start command"
ErrCommand      == "command failed with exit code"

\* The command line of the run and the repository it runs in.
RunCommand == << <<"sleep">>, <<"5">> >>
RunRepo == RepoOf(<<"main">>, repoSt.IsDirty)
RunEnv ==
    EnvOf(RunRepo, <<"commit 7a9162c", NL, NL, "    fix status string">>)

Init ==
    /\ ToolIdle
    /\ file = NoFile /\ phase = "idle" /\ initArgs = <<>> /\ endArgs = <<>>
    /\ parsed = <<>> /\ writeErr = ""
    /\ pc = "start"
    /\ cfg \in [Force : BOOLEAN, CleanupOnFail : BOOLEAN, BaseDirSet : BOOLEAN]
    \* GetRepoStatus returns an error, or a status with its IsDirty field
    /\ repoSt \in {r \in [ok : BOOLEAN, IsDirty : BOOLEAN] : r.ok \/ ~r.IsDirty}
    \* the base directory is missing, or there without the run directory, or
    \* there with a directory of the name this run will compute
    /\ \E d \in {<<FALSE, "absent">>, <<TRUE, "absent">>, <<TRUE, "foreign">>} :
          fs = [baseDir |-> d[1], expDir |-> d[2], summary |-> NoFile,
                stdoutFile |-> FALSE, stderrFile |-> FALSE]
    /\ child = [state |-> "none", kind |-> "none", code |-> 0]
    /\ waiter = [pc |-> "none", err |-> [kind |-> "nil", code |-> 0]]
    /\ doneChan = <<>>
    /\ signalChan = <<>>
    /\ nsig = 0
    /\ loc = [startTime |-> ZeroTime, exitCode |-> 0, interrupted |-> FALSE]
    /\ ret = ""
    /\ procExit = -1
    /\ hist = [created |-> {}, path |-> "none", childAtSignal |-> "none",
               forwarded |-> FALSE, removedBy |-> "none", childAtRemoval |-> "none",
               results |-> <<>>]

\* return err
Return(err) == pc' = "returned" /\ ret' = err

\* A dirty check that does not read the force override.
DirtyRefusal_IgnoresForce == repoSt.IsDirty

\* if repo.IsDirty && !cfg.Run.Force
DirtyRefusal == repoSt.IsDirty /\ ~cfg.Force

\* Lines 24-39: the repository status, the dirty check, the base directory name.
CheckRepository ==
    /\ pc = "start"
    /\ IF ~repoSt.ok THEN Return(ErrGit)
       ELSE IF DirtyRefusal THEN Return(ErrDirty)
       ELSE IF ~cfg.BaseDirSet THEN Return(ErrNoBaseDir)
       ELSE pc' = "mkbase" /\ ret' = ret
    /\ UNCHANGED <<cfg, repoSt, fs, child, waiter, doneChan, signalChan, nsig, loc,
                   procExit, hist, codecVars, toolVars>>

\* os.MkdirAll(baseDir, 0755): nothing to do when the directory is there.
MakeBaseDir ==
    /\ pc = "mkbase"
    /\ \/ /\ fs.baseDir
          /\ pc' = "mkexp"
          /\ UNCHANGED <<fs, hist, ret>>
       \/ /\ ~fs.baseDir
          /\ fs' = [fs EXCEPT !.baseDir = TRUE]
          /\ hist' = [hist EXCEPT !.created = @ \cup {"baseDir"}]
          /\ pc' = "mkexp"
          /\ ret' = ret
       \/ /\ ~fs.baseDir
          /\ Return(ErrMkBaseDir)
          /\ UNCHANGED <<fs, hist>>
    /\ UNCHANGED <<cfg, repoSt, child, waiter, doneChan, signalChan, nsig, loc,
                   procExit, codecVars, toolVars>>

\* A Main that makes the run directory with os.MkdirAll, which takes an
\* existing directory for made.
MakeExpDir_MkdirAll ==
    /\ pc = "mkexp"
    /\ \E startTime \in StartTimes :
          \/ /\ fs' = [fs EXCEPT !.expDir = IF @ = "absent" THEN "own" ELSE @]
             /\ hist' = [hist EXCEPT !.created =
                            IF fs.expDir = "absent" THEN @ \cup {"expDir"} ELSE @]
             /\ loc' = [loc EXCEPT !.startTime = startTime]
             /\ pc' = "notify"
             /\ ret' = ret
          \/ /\ Return(ErrMkExpDir)
             /\ loc' = [loc EXCEPT !.startTime = startTime]
             /\ UNCHANGED <<fs, hist>>
    /\ UNCHANGED <<cfg, repoSt, child, waiter, doneChan, signalChan, nsig,
                   procExit, codecVars, toolVars>>

\* startTime := time.Now(); os.Mkdir(expDir, 0755): fails when the name exists.
MakeExpDir ==
    /\ pc = "mkexp"
    /\ \E startTime \in StartTimes :
          \/ /\ fs.expDir = "absent"
             /\ fs' = [fs EXCEPT !.expDir = "own"]
             /\ hist' = [hist EXCEPT !.created = @ \cup {"expDir"}]
             /\ loc' = [loc EXCEPT !.startTime = startTime]
             /\ pc' = "notify"
             /\ ret' = ret
          \/ /\ Return(ErrMkExpDir)
             /\ loc' = [loc EXCEPT !.startTime = startTime]
             /\ UNCHANGED <<fs, hist>>
    /\ UNCHANGED <<cfg, repoSt, child, waiter, doneChan, signalChan, nsig,
                   procExit, codecVars, toolVars>>

\* interrupted := false; signal.Notify(signalChan, os.Interrupt, syscall.SIGTERM)
NotifySignals ==
    /\ pc = "notify"
    /\ pc' = "writeinit"
    /\ loc' = [loc EXCEPT !.interrupted = FALSE]
    /\ UNCHANGED <<cfg, repoSt, fs, child, waiter, doneChan, signalChan, nsig,
                   ret, procExit, hist, codecVars, toolVars>>

\* From signal.Notify until Main returns, signals go to signalChan.
Notified == pc \in {"writeinit", "outputs", "startcmd", "select", "forward",
                    "drain", "writeend", "finish"}

\* utils.WriteSummaryFileInit(summaryPath, startTime, repo, commands)
WriteInitialBlock ==
    /\ pc = "writeinit"
    /\ \/ /\ fs' = [fs EXCEPT !.summary =
                       [exists |-> TRUE,
                        content |-> WriteSummaryFileInit(loc.startTime, RunRepo,
                                                         RunCommand, RunEnv)]]
          /\ hist' = [hist EXCEPT !.created = @ \cup {"summary"}]
          /\ pc' = "outputs"
          /\ ret' = ret
       \/ /\ Return(ErrWriteSummary)
          /\ UNCHANGED <<fs, hist>>
    /\ UNCHANGED <<cfg, repoSt, child, waiter, doneChan, signalChan, nsig, loc,
                   procExit, codecVars, toolVars>>

\* os.Create(stdoutPath); os.Create(stderrPath)
CreateOutputFiles ==
    /\ pc = "outputs"
    /\ \/ /\ Return(ErrStdoutFile)
          /\ UNCHANGED <<fs, hist>>
       \/ /\ fs' = [fs EXCEPT !.stdoutFile = TRUE]
          /\ hist' = [hist EXCEPT !.created = @ \cup {"stdout"}]
          /\ Return(ErrStderrFile)
       \/ /\ fs' = [fs EXCEPT !.stdoutFile = TRUE, !.stderrFile = TRUE]
          /\ hist' = [hist EXCEPT !.created = @ \cup {"stdout", "stderr"}]
          /\ pc' = "startcmd"
          /\ ret' = ret
    /\ UNCHANGED <<cfg, repoSt, child, waiter, doneChan, signalChan, nsig, loc,
                   procExit, codecVars, toolVars>>

\* os.RemoveAll(expDir): the directory and the files in it.
cleanupRun(why) ==
    /\ fs' = [fs EXCEPT !.expDir = "removed", !.summary = NoFile,
                        !.stdoutFile = FALSE, !.stderrFile = FALSE]
    /\ hist' = [hist EXCEPT !.removedBy = why, !.childAtRemoval = child.state]

\* cmd.Start(), and on success exitCode := 0, doneChan and the goroutine
\* that runs doneChan <- cmd.Wait().
StartCommand ==
    /\ pc = "startcmd"
    /\ \/ /\ child' = [child EXCEPT !.state = "running"]
          /\ waiter' = [waiter EXCEPT !.pc = "wait"]
          /\ loc' = [loc EXCEPT !.exitCode = 0]
          /\ pc' = "select"
          /\ UNCHANGED <<fs, hist, ret>>
       \/ /\ cleanupRun("startfail")
          /\ Return(ErrStart)
          /\ UNCHANGED <<child, waiter, loc>>
    /\ UNCHANGED <<cfg, repoSt, doneChan, signalChan, nsig, procExit, codecVars, toolVars>>

\* The child ends: it exits with a code, or a signal kills it.
ChildTerminates ==
    /\ child.state = "running"
    /\ \/ \E code \in ChildExitCodes :
             child' = [state |-> "exited", kind |-> "exit", code |-> code]
       \/ child' = [state |-> "exited", kind |-> "signaled", code |-> -1]
    /\ UNCHANGED <<pc, cfg, repoSt, fs, waiter, doneChan, signalChan, nsig, loc,
                   ret, procExit, hist, codecVars, toolVars>>

\* What cmd.Wait returns for an ended child: nil; an *exec.ExitError, whose
\* ExitCode() is the exit code, or -1 for a child a signal killed; or, for a
\* child that exited with 0, the error of a copier of its output.
WaitResults(c) ==
    IF c.kind = "signaled" THEN {[kind |-> "exit", code |-> -1]}
    ELSE IF c.code # 0 THEN {[kind |-> "exit", code |-> c.code]}
    ELSE {[kind |-> "nil", code |-> 0], [kind |-> "other", code |-> 0]}

\* The goroutine: cmd.Wait() returns once the child has ended.
WaitReturns ==
    /\ waiter.pc = "wait"
    /\ child.state = "exited"
    /\ child' = [child EXCEPT !.state = "reaped"]
    /\ \E err \in WaitResults(child) : waiter' = [pc |-> "send", err |-> err]
    /\ UNCHANGED <<pc, cfg, repoSt, fs, doneChan, signalChan, nsig, loc, ret,
                   procExit, hist, codecVars, toolVars>>

\* The goroutine: doneChan <- (the result of cmd.Wait).
SendDone ==
    /\ waiter.pc = "send"
    /\ Len(doneChan) < DoneChanCap
    /\ doneChan' = Append(doneChan, waiter.err)
    /\ waiter' = [waiter EXCEPT !.pc = "done"]
    /\ UNCHANGED <<pc, cfg, repoSt, fs, child, signalChan, nsig, loc, ret,
                   procExit, hist, codecVars, toolVars>>

\* A SIGINT or SIGTERM reaches the moco process; os/signal does not block
\* on a full channel, the signal is dropped.
DeliverSignal ==
    /\ Notified
    /\ nsig < MaxSignals
    /\ nsig' = nsig + 1
    /\ \E sig \in Signals :
          signalChan' = IF Len(signalChan) < SignalChanCap
                        THEN Append(signalChan, sig) ELSE signalChan
    /\ UNCHANGED <<pc, cfg, repoSt, fs, child, waiter, doneChan, loc, ret,
                   procExit, hist, codecVars, toolVars>>

\* Lines 115-121: the exit code of the completion case.
ExitCodeOf(err) ==
    IF err.kind = "nil" THEN 0
    ELSE IF err.kind = "exit" THEN err.code
    ELSE ExitOtherError

\* case err := <-doneChan
SelectDone ==
    /\ pc = "select"
    /\ doneChan # <<>>
    /\ loc' = [loc EXCEPT !.exitCode = ExitCodeOf(Head(doneChan))]
    /\ doneChan' = Tail(doneChan)
    /\ hist' = [hist EXCEPT !.path = "done"]
    /\ pc' = "writeend"
    /\ UNCHANGED <<cfg, repoSt, fs, child, waiter, signalChan, nsig, ret,
                   procExit, codecVars, toolVars>>

\* case sig := <-signalChan: interrupted = true
SelectSignal ==
    /\ pc = "select"
    /\ signalChan # <<>>
    /\ loc' = [loc EXCEPT !.interrupted = TRUE]
    /\ signalChan' = Tail(signalChan)
    /\ hist' = [hist EXCEPT !.path = "signal", !.childAtSignal = child.state]
    /\ pc' = "forward"
    /\ UNCHANGED <<cfg, repoSt, fs, child, waiter, doneChan, nsig, ret,
                   procExit, codecVars, toolVars>>

\* Lines 126-138: cmd.Process.Signal(syscall.Signal(0)) answers nil until
\* cmd.Wait has returned; only then is the signal sent on to the child.
ForwardSignal ==
    /\ pc = "forward"
    /\ hist' = [hist EXCEPT !.forwarded = (child.state # "reaped")]
    /\ pc' = "drain"
    /\ UNCHANGED <<cfg, repoSt, fs, child, waiter, doneChan, signalChan, nsig,
                   loc, ret, procExit, codecVars, toolVars>>

\* An interrupted path that keeps the exit code of the message it drains.
DrainExitCode_FromMessage(err) == ExitCodeOf(err)

\* An interrupted path that leaves the exit code as it was initialised.
DrainExitCode_LeftAtZero(err) == 0

\* exitCode = 130 after <-doneChan, whatever the message holds.
DrainExitCode(err) == ExitInterrupted

\* An interrupted path that waits on signalChan where the source waits on
\* doneChan.
DrainDone_OnSignalChan ==
    /\ pc = "drain"
    /\ signalChan # <<>>
    /\ loc' = [loc EXCEPT !.exitCode = DrainExitCode(waiter.err)]
    /\ signalChan' = Tail(signalChan)
    /\ pc' = "writeend"
    /\ UNCHANGED <<cfg, repoSt, fs, child, waiter, doneChan, nsig, ret,
                   procExit, hist, codecVars, toolVars>>

\* An interrupted path that sets the exit code without waiting for the
\* message of the goroutine.
DrainDone_NoWait ==
    /\ pc = "drain"
    /\ loc' = [loc EXCEPT !.exitCode = ExitInterrupted]
    /\ pc' = "writeend"
    /\ UNCHANGED <<cfg, repoSt, fs, child, waiter, doneChan, signalChan, nsig, ret,
                   procExit, hist, codecVars, toolVars>>

\* <-doneChan; exitCode = 130
DrainDone ==
    /\ pc = "drain"
    /\ doneChan # <<>>
    /\ loc' = [loc EXCEPT !.exitCode = DrainExitCode(Head(doneChan))]
    /\ doneChan' = Tail(doneChan)
    /\ pc' = "writeend"
    /\ UNCHANGED <<cfg, repoSt, fs, child, waiter, signalChan, nsig, ret,
                   procExit, hist, codecVars, toolVars>>

\* endTime := time.Now(); utils.WriteSummaryFileEnd(summaryPath, startTime,
\* endTime, exitCode, interrupted)
WriteResultsBlock ==
    /\ pc = "writeend"
    /\ \/ \E endTime \in {t \in EndTimes : t >= loc.startTime} :
             LET block == WriteSummaryFileEnd(loc.startTime, endTime, loc.exitCode,
                                              loc.interrupted)
             IN  /\ fs' = [fs EXCEPT !.summary.content = @ \o block]
                 /\ hist' = [hist EXCEPT !.results = block]
                 /\ pc' = "finish"
                 /\ ret' = ret
       \/ /\ Return(ErrWriteSummary)
          /\ UNCHANGED <<fs, hist>>
    /\ UNCHANGED <<cfg, repoSt, child, waiter, doneChan, signalChan, nsig, loc,
                   procExit, codecVars, toolVars>>

\* A cleanup that does not read the policy flag.
CleanupWanted_NoFlag == loc.exitCode # 0

\* if exitCode != 0 && cfg.Run.CleanupOnFail
CleanupWanted == loc.exitCode # 0 /\ cfg.CleanupOnFail

\* Lines 156-165: the cleanup on failure and the value Main returns.
Finish ==
    /\ pc = "finish"
    /\ IF CleanupWanted THEN cleanupRun("cleanup") ELSE UNCHANGED <<fs, hist>>
    /\ Return(IF loc.exitCode # 0 THEN ErrCommand ELSE "")
    /\ UNCHANGED <<cfg, repoSt, child, waiter, doneChan, signalChan, nsig, loc,
                   procExit, codecVars, toolVars>>

\* main: log.Fatalf when cmd.Execute() returns an error, else the end of main.
ProcessExit ==
    /\ pc = "returned"
    /\ procExit' = IF ret = "" THEN 0 ELSE FatalExit
    /\ pc' = "exited"
    /\ UNCHANGED <<cfg, repoSt, fs, child, waiter, doneChan, signalChan, nsig,
                   loc, ret, hist, codecVars, toolVars>>

MainStep ==
    \/ CheckRepository
    \/ MakeBaseDir
    \/ MakeExpDir
    \/ NotifySignals
    \/ WriteInitialBlock
    \/ CreateOutputFiles
    \/ StartCommand
    \/ SelectDone
    \/ SelectSignal
    \/ ForwardSignal
    \/ DrainDone
    \/ WriteResultsBlock
    \/ Finish
    \/ ProcessExit

Next ==
    \/ MainStep
    \/ ChildTerminates
    \/ WaitReturns
    \/ SendDone
    \/ DeliverSignal

Spec == Init /\ [][Next]_vars

\* The scheduling the liveness of Main rests on: the Go scheduler runs the
\* main goroutine and the waiting goroutine whenever they can take a step,
\* and the child terminates. Nothing makes a signal arrive.
Fairness ==
    /\ WF_vars(MainStep)
    /\ WF_vars(WaitReturns)
    /\ WF_vars(SendDone)
    /\ WF_vars(ChildTerminates)

LiveSpec == Init /\ [][Next]_vars /\ Fairness

----------------------------------------------------------------------------
(* Properties of the record codec, checked under CodecSpec *)

\* An instant without its part below the second, which time.RFC3339 drops.
TruncSecond(t) == (t \div 1000000) * 1000000

\* C1: after WriteSummaryFileInit and then WriteSummaryFileEnd on a path,
\* ParseRunInfo on that path returns no error and a record whose StartTime,
\* EndTime, Command (the vector joined by single spaces), ExitStatus, Branch,
\* CommitHash and Interrupted are the supplied values, with IsRunning false.
\* The two instants are compared at the whole second, so that a violation
\* does not rest on the precision of the timestamp format.
C1_RoundTrip ==
    (phase = "end" /\ parsed # <<>>) =>
        LET info == parsed[1]
            a    == initArgs[1]
            e    == endArgs[1]
        IN  /\ info.err = ""
            /\ info.StartTime = TruncSecond(a.startTime)
            /\ info.EndTime = TruncSecond(e.endTime)
            /\ info.Command = JoinSpace(a.command)
            /\ info.ExitStatus = e.exitCode
            /\ info.Branch = a.repo.Branch
            /\ info.CommitHash = a.repo.FullHash
            /\ info.Interrupted = e.interrupted
            /\ ~info.IsRunning

\* A finished record of a command with a line feed in an argument: the
\* reader returns the command error.
C1_CommandLineSplit ==
    /\ phase = "end"
    /\ parsed # <<>>
    /\ Contains(JoinSpace(initArgs[1].command), NL)
    /\ parsed[1].err = "failed to parse command"

\* C2: a record that holds only the initial block parses without error,
\* with IsRunning true, ExitStatus 0 and Interrupted false.
C2_InitOnlyIsRunning ==
    (phase = "init" /\ parsed # <<>>) =>
        /\ parsed[1].err = ""
        /\ parsed[1].IsRunning
        /\ parsed[1].ExitStatus = 0
        /\ ~parsed[1].Interrupted

\* A record with only the initial block that parses, without error, as a
\* finished run.
C2_InitOnlyLooksFinished ==
    /\ phase = "init"
    /\ parsed # <<>>
    /\ parsed[1].err = ""
    /\ ~parsed[1].IsRunning

\* A line of the text that lies outside the fenced regions and on which the
\* field chain of ParseRunInfo fails.
MalformedField(content) ==
    LET lines == ScanLines(content) IN
    \E i \in 1..Len(lines) :
        /\ Cardinality({j \in 1..i : HasPrefix(lines[j], Fence)}) % 2 = 0
        /\ ParseLine(NewRunInfo, lines[i]).err # ""

\* C10: ParseRunInfo returns an error when the record cannot be opened (the
\* text "failed to open summary file") and when a field of the record is
\* malformed: a branch, commit hash or command not in a closed pair of
\* backticks, an unparseable start or end timestamp, a non-integer exit
\* status.
C10_MalformedIsError ==
    (phase = "given" /\ parsed # <<>>) =>
        /\ ~file.exists => parsed[1].err = "failed to open summary file"
        /\ (file.exists /\ MalformedField(file.content)) => parsed[1].err # ""

\* A record with a malformed field that ParseRunInfo returns without error.
C10_SilentDefault ==
    /\ phase = "given"
    /\ parsed # <<>>
    /\ file.exists
    /\ MalformedField(file.content)
    /\ parsed[1].err = ""

----------------------------------------------------------------------------
(* Properties of Main, checked under Spec and LiveSpec *)

\* What the results block Main appended says, read as ParseRunInfo reads it.
Recorded == ScanLoop(ScanLines(hist.results), 1, NewRunInfo, FALSE)

Appended == hist.results # <<>>
MainReturned == pc \in {"returned", "exited"}

C4_ExitStatusKept ==
    (/\ Appended
     /\ hist.path = "signal"
     /\ hist.childAtSignal \in {"exited", "reaped"}
     /\ child.kind = "exit") =>
        /\ Recorded.ExitStatus = child.code
        /\ ~Recorded.Interrupted

\* The child had exited with 0 before the signal was taken, and the record
\* says 130, interrupted.
C4_ExitStatusLost ==
    /\ Appended
    /\ hist.path = "signal"
    /\ hist.childAtSignal \in {"exited", "reaped"}
    /\ child.kind = "exit"
    /\ child.code = 0
    /\ Recorded.ExitStatus = ExitInterrupted
    /\ Recorded.Interrupted

\* C5 as the code has it, under Fairness: once the child is started, Main
\* takes the message from doneChan, on either path; it then appends the
\* results block or returns the error of the failed append; and the goroutine
\* that waits for the child completes its send.
C5_EventuallyFinalized ==
    /\ (child.state = "running") ~> (pc \in {"writeend", "finish", "returned", "exited"})
    /\ (pc = "writeend") ~> (Appended \/ (MainReturned /\ ret = ErrWriteSummary))
    /\ (waiter.pc = "send") ~> (waiter.pc = "done")

\* Main has appended the results block on the interrupted path and the
\* goroutine is past its send.
C5_FinalizedAfterInterrupt ==
    /\ Appended
    /\ hist.path = "signal"
    /\ waiter.pc = "done"
    /\ doneChan = <<>>

\* C5 as stated, in the form a finite run refutes: Main does not return
\* after it started the child without having appended the results block.
C5_ReturnsOnlyFinalized ==
    (MainReturned /\ child.state # "none") => Appended

\* C6: Main returns the dirty-tree error exactly when the tree is dirty and
\* force is not set; it has then created no directory and no file and
\* started no child; with force set, it never returns that error.
C6_DirtyRefusalIff ==
    pc # "start" =>
        /\ (ret = ErrDirty) <=> (repoSt.IsDirty /\ ~cfg.Force)
        /\ ret = ErrDirty =>
              /\ MainReturned
              /\ hist.created = {}
              /\ fs.summary = NoFile /\ ~fs.stdoutFile /\ ~fs.stderrFile
              /\ child.state = "none" /\ waiter.pc = "none"
        /\ cfg.Force => ret # ErrDirty

\* Main has refused a dirty tree.
C6_Refused ==
    /\ MainReturned
    /\ ret = ErrDirty
    /\ repoSt.IsDirty

\* C7 as the code has it: Main removes the run directory when cmd.Start
\* fails, whatever the policy, with no child started; and otherwise only when
\* the cleanup-on-fail flag is set and the exit code is not 0, after cmd.Wait
\* has returned and the results block is appended.
C7_RemovalCases ==
    fs.expDir = "removed" =>
        \/ /\ hist.removedBy = "startfail"
           /\ child.state = "none"
           /\ ret = ErrStart
        \/ /\ hist.removedBy = "cleanup"
           /\ cfg.CleanupOnFail
           /\ loc.exitCode # 0
           /\ hist.childAtRemoval = "reaped"
           /\ Appended

\* The run directory was removed by the cleanup on failure.
C7_RemovedByPolicy ==
    /\ fs.expDir = "removed"
    /\ hist.removedBy = "cleanup"
    /\ child.state = "reaped"

\* C7 as stated: the run directory is removed only with the cleanup-on-fail
\* flag set and an exit code other than 0, after the child has terminated.
C7_OnlyByPolicy ==
    fs.expDir = "removed" =>
        /\ cfg.CleanupOnFail
        /\ loc.exitCode # 0
        /\ hist.childAtRemoval = "reaped"

\* C8: after a run whose results block was appended, the moco process exits
\* with 130 when the run was interrupted, and else with the exit code of the
\* child (0 when the child exited 0).
C8_ProcessExitCode ==
    (pc = "exited" /\ Appended) =>
        /\ hist.path = "signal" => procExit = ExitInterrupted
        /\ (hist.path = "done" /\ child.kind = "exit" /\ waiter.err.kind # "other") =>
              procExit = child.code

\* The child exited with 2 and the moco process with 1.
C8_FatalExitInstead ==
    /\ pc = "exited"
    /\ hist.path = "done"
    /\ child.kind = "exit"
    /\ child.code = 2
    /\ procExit = FatalExit

\* C9: on the completion path a child that a signal killed is recorded with
\* exit status 1, and a child that exited by itself with its exit code.
C9_SignaledRecordedAsOne ==
    (Appended /\ hist.path = "done") =>
        /\ child.kind = "signaled" => Recorded.ExitStatus = 1
        /\ (child.kind = "exit" /\ waiter.err.kind # "other") =>
              Recorded.ExitStatus = child.code

\* A child that a signal killed, recorded on the completion path with -1.
C9_SignaledRecordedAsMinusOne ==
    /\ Appended
    /\ hist.path = "done"
    /\ child.kind = "signaled"
    /\ Recorded.ExitStatus = -1

----------------------------------------------------------------------------
(* SanitizeBranchName: internal/utils/repo.go *)

\* Longest branch name handed to SanitizeBranchName.
MaxNameLen == 4

\* The bytes of the branch names: a letter, the slash, the hyphen.
NameBytes == {"a", "/", "-"}
BranchNames == UNION {[1..n -> NameBytes] : n \in 0..MaxNameLen}

\* strings.Replace(name, "/", "-", 1): only the first slash.
SanitizeFirstSlash(name) ==
    [i \in 1..Len(name) |->
        IF name[i] = "/" /\ \A j \in 1..(i - 1) : name[j] # "/" THEN "-" ELSE name[i]]

\* strings.ReplaceAll(name, "/", "-")
SanitizeBranchName(name) ==
    [i \in 1..Len(name) |-> IF name[i] = "/" THEN "-" ELSE name[i]]

SanitizeInit ==
    /\ RunIdle
    /\ ToolIdle
    /\ file = NoFile /\ phase = "idle" /\ initArgs = <<>> /\ endArgs = <<>>
    /\ parsed = <<>> /\ writeErr = ""

\* SanitizeBranchName(name)
CallSanitizeBranchName ==
    /\ tool.op = "none"
    /\ \E name \in BranchNames :
          tool' = [op |-> "sanitize", name |-> name, calls |-> 1,
                   res |-> SanitizeBranchName(name), prev |-> name]
    /\ UNCHANGED <<disk, codecVars, runVars>>

\* SanitizeBranchName applied to its own result.
CallSanitizeBranchNameAgain ==
    /\ tool.op = "sanitize"
    /\ tool.calls = 1
    /\ tool' = [tool EXCEPT !.calls = 2, !.res = SanitizeBranchName(tool.res),
                            !.prev = tool.res]
    /\ UNCHANGED <<disk, codecVars, runVars>>

SanitizeNext == CallSanitizeBranchName \/ CallSanitizeBranchNameAgain

SanitizeSpec == SanitizeInit /\ [][SanitizeNext]_vars

\* C11: the result of SanitizeBranchName holds no slash, it is the name with
\* each slash replaced by a hyphen and every other byte kept, it is the name
\* itself when the name holds no slash, and a second application returns what
\* the first returned.
C11_SanitizeBranchName ==
    tool.op = "sanitize" =>
        /\ ~Contains(tool.res, "/")
        /\ Len(tool.res) = Len(tool.name)
        /\ \A i \in 1..Len(tool.name) :
              tool.res[i] = (IF tool.name[i] = "/" THEN "-" ELSE tool.name[i])
        /\ ~Contains(tool.name, "/") => tool.res = tool.name
        /\ tool.calls = 2 => tool.res = tool.prev

\* A name with two slashes was sanitized twice.
C11_TwoSlashesTwice ==
    /\ tool.op = "sanitize"
    /\ tool.calls = 2
    /\ tool.name = <<"a", "/", "/", "a">>
    /\ tool.res = <<"a", "-", "-", "a">>

----------------------------------------------------------------------------
(* The base directory: names of run directories and the records in them *)

\* Width of the digits of a directory timestamp.  The source writes the
\* wall clock as 2006-01-02T15:04:05.000, 23 bytes; here it is the letter T
\* and the milliseconds of the wall clock in a fixed number of digits.
StampDigits == 5
StampLen == 1 + StampDigits

ZeroPad(digits, w) ==
    [i \in 1..w |-> IF i <= w - Len(digits) THEN "0" ELSE digits[i - (w - Len(digits))]]

\* startTime.Format("2006-01-02T15:04:05.000") of an instant whose wall
\* clock in the local zone is wall: no zone is written.
FormatStamp(wall) == <<"T">> \o ZeroPad(NatToText(wall \div 1000), StampDigits)

\* \d{4}-\d{2}-\d{2}T\d{2}:\d{2}:\d{2}\.\d{3}
IsStamp(s) ==
    /\ Len(s) = StampLen
    /\ s[1] = "T"
    /\ AllDigits(SubSeq(s, 2, StampLen))

\* Seven bytes of [a-f0-9], and seven bytes that are not.
HexTokens == {"7a9162c", "00fade0"}
OtherTokens == {"7A9162C"}

\* A pattern whose last group takes any seven bytes.
MatchesAnyToken(name) ==
    /\ Len(name) >= StampLen + 4
    /\ IsStamp(SubSeq(name, 1, StampLen))
    /\ name[StampLen + 1] = "_"
    /\ name[Len(name) - 1] = "_"
    /\ name[Len(name)] \in HexTokens \cup OtherTokens

\* pattern.FindStringSubmatch(name) has four elements:
\* ^(stamp)_(.+)_([a-f0-9]{7})$
MatchesRunPattern(name) ==
    /\ Len(name) >= StampLen + 4
    /\ IsStamp(SubSeq(name, 1, StampLen))
    /\ name[StampLen + 1] = "_"
    /\ name[Len(name) - 1] = "_"
    /\ name[Len(name)] \in HexTokens
    /\ \A i \in (StampLen + 2)..(Len(name) - 2) : name[i] # NL

\* A name whose last part is the short hash in capitals.
DirNameOf_UpperHash(wall, branch, shortHash) ==
    FormatStamp(wall) \o <<"_">> \o SanitizeBranchName(branch) \o <<"_", "7A9162C">>

\* dirName of Main: "%s_%s_%s" of the stamp, the sanitized branch and the
\* short hash.
DirNameOf(wall, branch, shortHash) ==
    FormatStamp(wall) \o <<"_">> \o SanitizeBranchName(branch) \o <<"_">> \o shortHash

\* Instants at which the runs in the base directory were started.
RunStarts == <<1000000, 1250500, 63000000>>
RunEnd(startTime) == IF startTime = 63000000 THEN 63999999 ELSE 3000000

\* The record in a run directory: of a run that ended with 0, that ended
\* with 2, that is still running; no record at all (WriteSummaryFileInit
\* failed); a record whose exit status line is not a number.
RecordKinds == {"success", "failure", "running", "missing", "badexit"}

RecordOf(kind, startTime, branch) ==
    LET repo  == RepoOf(branch, FALSE)
        first == WriteSummaryFileInit(startTime, repo, << <<"sleep">>, <<"5">> >>,
                                      EnvOf(repo, <<"commit 7a9162c", NL>>))
        last(code) == WriteSummaryFileEnd(startTime, RunEnd(startTime), code, FALSE)
    IN  IF kind = "missing" THEN NoFile
        ELSE [exists |-> TRUE,
              content |-> first \o
                 (IF kind = "success" THEN last(0)
                  ELSE IF kind = "failure" THEN last(2)
                  ELSE IF kind = "badexit"
                  THEN <<NL, "## Execution Results", NL, LblExit, "1", "x", NL>>
                  ELSE <<>>)]

\* Entries of the base directory in the order of os.ReadDir (by file name):
\* the directories of three runs and a directory with a name that is not
\* one of a run.
EntryNames ==
    <<DirNameOf(RunStarts[1], <<"main">>, <<"7a9162c">>),
      DirNameOf(RunStarts[2], <<"x", "/", "y">>, <<"7a9162c">>),
      DirNameOf(RunStarts[3], <<"main">>, <<"7a9162c">>),
      DirNameOf(RunStarts[3], <<"main">>, <<"7A9162C">>)>>

EntryBranches == << <<"main">>, <<"x", "/", "y">>, <<"main">>, <<"main">> >>

\* What an entry can be: the first also a plain file, the last a directory
\* with the record of a finished run.
EntryKinds(i) ==
    IF i = 1 THEN RecordKinds \cup {"file"}
    ELSE IF i <= 3 THEN RecordKinds
    ELSE {"success"}

MaxEntries == 3

\* The entries with the given indices of EntryNames, in their order; what[i]
\* says what entry i is: a plain file, or a directory with a record.
EntryAt(i, what) ==
    [name  |-> EntryNames[i],
     isDir |-> what # "file",
     what  |-> what,
     start |-> RunStarts[IF i <= 3 THEN i ELSE 3],
     file  |-> IF what = "file" THEN NoFile
               ELSE RecordOf(what, RunStarts[IF i <= 3 THEN i ELSE 3], EntryBranches[i])]

RECURSIVE EntriesOf(_, _, _)
EntriesOf(idx, what, i) ==
    IF i > Len(EntryNames) THEN <<>>
    ELSE (IF i \in idx THEN <<EntryAt(i, what[i])>> ELSE <<>>) \o EntriesOf(idx, what, i + 1)

EntryLists ==
    {EntriesOf(idx, what, 1) :
        idx \in {x \in SUBSET (1..Len(EntryNames)) : Cardinality(x) <= MaxEntries},
        what \in {w \in [1..Len(EntryNames) -> RecordKinds \cup {"file"}] :
                      \A i \in 1..Len(EntryNames) : w[i] \in EntryKinds(i)}}

\* The records that occur in the base directory, each parsed once.
DiskFiles ==
    {RecordOf(k, RunStarts[i], EntryBranches[i]) : k \in RecordKinds, i \in 1..Len(RunStarts)}
ParsedFiles == [f \in DiskFiles |-> ParseRunInfo(f)]

\* utils.ParseRunInfo(filepath.Join(baseDir, name, cfg.SummaryFile)): the
\* record and the error, with the Directory it was read from.
ParseRunInfoIn(entry) == [Directory |-> entry.name] @@ ParsedFiles[entry.file]

----------------------------------------------------------------------------
(* The list command: internal/list (part_007) *)

RECURSIVE FindLoop_SkipsUnparsed(_, _, _)
\* A loop that goes on with the next entry when a record fails to parse.
FindLoop_SkipsUnparsed(entries, i, runs) ==
    IF i > Len(entries) THEN [runs |-> runs, err |-> ""]
    ELSE IF ~entries[i].isDir THEN FindLoop_SkipsUnparsed(entries, i + 1, runs)
    ELSE IF ~MatchesRunPattern(entries[i].name)
    THEN FindLoop_SkipsUnparsed(entries, i + 1, runs)
    ELSE LET runInfo == ParseRunInfoIn(entries[i])
         IN  FindLoop_SkipsUnparsed(entries, i + 1,
                 IF runInfo.err # "" THEN runs ELSE Append(runs, runInfo))

RECURSIVE FindLoop(_, _, _)
\* for _, entry := range entries { ... } of findRuns
FindLoop(entries, i, runs) ==
    IF i > Len(entries) THEN [runs |-> runs, err |-> ""]
    ELSE IF ~entries[i].isDir THEN FindLoop(entries, i + 1, runs)
    ELSE IF ~MatchesRunPattern(entries[i].name) THEN FindLoop(entries, i + 1, runs)
    ELSE LET runInfo == ParseRunInfoIn(entries[i])
         IN  IF runInfo.err # ""
             THEN [runs |-> <<>>, err |-> "failed to parse summary file"]
             ELSE FindLoop(entries, i + 1, Append(runs, runInfo))

\* findRuns(baseDir): d is the base directory, missing, a directory with
\* entries, or something os.ReadDir cannot read.
findRuns(d) ==
    IF d.baseDir = "missing" THEN [runs |-> <<>>, err |-> ""]
    ELSE IF d.baseDir # "dir" THEN [runs |-> <<>>, err |-> "failed to read base directory"]
    ELSE FindLoop(d.entries, 1, <<>>)

\* time.Now() of the list, status and archive commands.
ClockNow == 64000000

\* int64, the type under time.Duration: eight bytes, the lowest first, two's
\* complement.  The arithmetic below is Go's, modulo 2^64.
Int64Bytes == 8

ByteBase == 256

\* int64(n) for 0 <= n < 2^31
Int64Of(n) ==
    [k \in 1..Int64Bytes |->
        IF k = 1 THEN n % ByteBase
        ELSE IF k = 2 THEN (n \div ByteBase) % ByteBase
        ELSE IF k = 3 THEN (n \div (ByteBase * ByteBase)) % ByteBase
        ELSE IF k = 4 THEN n \div (ByteBase * ByteBase * ByteBase)
        ELSE 0]

RECURSIVE ColumnSum(_, _, _, _)
ColumnSum(a, b, k, i) ==
    IF i > k THEN 0 ELSE a[i] * b[k + 1 - i] + ColumnSum(a, b, k, i + 1)

RECURSIVE MulCarry(_, _, _, _, _)
MulCarry(a, b, k, carry, acc) ==
    IF k > Int64Bytes THEN acc
    ELSE LET t == ColumnSum(a, b, k, 1) + carry
         IN  MulCarry(a, b, k + 1, t \div ByteBase, Append(acc, t % ByteBase))

\* a * b in int64: the bits above the 64th are lost.
Mul64(a, b) == MulCarry(a, b, 1, 0, <<>>)

Negative64(a) == a[Int64Bytes] >= ByteBase \div 2

RECURSIVE AddCarry(_, _, _, _)
AddCarry(a, k, carry, acc) ==
    IF k > Int64Bytes THEN acc
    ELSE AddCarry(a, k + 1, (a[k] + carry) \div ByteBase,
                  Append(acc, (a[k] + carry) % ByteBase))

\* -a in int64: the complement plus one
Negate64(a) == AddCarry([k \in 1..Int64Bytes |-> ByteBase - 1 - a[k]], 1, 1, <<>>)

RECURSIVE UnsignedLess(_, _, _)
UnsignedLess(a, b, k) ==
    IF k = 0 THEN FALSE
    ELSE IF a[k] # b[k] THEN a[k] < b[k]
    ELSE UnsignedLess(a, b, k - 1)

\* a < b in int64
Less64(a, b) ==
    IF Negative64(a) # Negative64(b) THEN Negative64(a)
    ELSE UnsignedLess(a, b, Int64Bytes)

RECURSIVE DivLoop(_, _, _, _, _)
DivLoop(a, m, k, rem, acc) ==
    IF k = 0 THEN acc
    ELSE LET t == rem * ByteBase + a[k]
         IN  DivLoop(a, m, k - 1, t % m, [acc EXCEPT ![k] = t \div m])

\* a / m for a >= 0 and a small m
Div64(a, m) == DivLoop(a, m, Int64Bytes, 0, a)

\* time.Second, time.Minute, time.Hour in nanoseconds
Second == Int64Of(1000000000)

Minute == Mul64(Int64Of(60), Second)

Hour == Mul64(Int64Of(60), Minute)

\* The multiplier of a unit: time.Minute, time.Hour, 24 * time.Hour.
UnitDuration(u) ==
    IF u = "m" THEN Minute
    ELSE IF u = "h" THEN Hour
    ELSE Mul64(Int64Of(24), Hour)

\* Instants of the model are microseconds below FarDuration; a duration is
\* read in microseconds as far as that, and as FarDuration beyond it, which
\* puts now - d before, and now + d after, every instant of the model.
FarDuration == 2 * ClockNow

Magnitude(a) ==
    LET us == Div64(a, 1000)
        small == /\ \A k \in 5..Int64Bytes : us[k] = 0
                 /\ us[4] < ByteBase \div 2
        n == us[1] + ByteBase * (us[2] + ByteBase * (us[3] + ByteBase * us[4]))
    IN  IF small /\ n < FarDuration THEN n ELSE FarDuration

Microseconds(d) ==
    IF Negative64(d) THEN -Magnitude(Negate64(d)) ELSE Magnitude(d)

\* parseDuration(s): ^(\d+)([dhm])$, then time.Duration(value) * multiplier,
\* a product in int64.  ns is the time.Duration returned, val the same in
\* microseconds.
parseDuration(s) ==
    IF /\ Len(s) >= 2
       /\ AllDigits(SubSeq(s, 1, Len(s) - 1))
       /\ s[Len(s)] \in {"d", "h", "m"}
    THEN LET value == DigitsToNat(SubSeq(s, 1, Len(s) - 1), 0)
             ns == Mul64(Int64Of(value), UnitDuration(s[Len(s)]))
         IN  [ok |-> TRUE, ns |-> ns, val |-> Microseconds(ns)]
    ELSE [ok |-> FALSE, ns |-> Int64Of(0), val |-> 0]

\* strings.Contains(s, sub)
ContainsText(s, sub) ==
    \E i \in 0..(Len(s) - Len(sub)) : SubSeq(s, i + 1, i + Len(sub)) = sub

\* A status test that looks at the exit status alone for 'success'.
StatusKeeps_ByExitStatus(status, run) ==
    /\ ~(status = "success" /\ run.ExitStatus # 0)
    /\ ~(status = "failure" /\ (run.IsRunning \/ run.ExitStatus = 0))
    /\ ~(status = "running" /\ ~run.IsRunning)

\* The status test of filterRuns for one run: TRUE when the run is kept.
StatusKeeps(status, run) ==
    /\ ~(status = "success" /\ (run.IsRunning \/ run.ExitStatus # 0))
    /\ ~(status = "failure" /\ (run.IsRunning \/ run.ExitStatus = 0))
    /\ ~(status = "running" /\ ~run.IsRunning)

\* filterRuns(runs, cfg).  o.Command is the pattern: unset, one that
\* regexp.Compile rejects, or a literal text.
filterRuns(runs, o) ==
    LET since == parseDuration(o.Since)
        sinceTime == IF o.Since = <<>> THEN ZeroTime ELSE ClockNow - since.val
        keep(run) ==
            /\ ~(o.Branch # <<>> /\ ~ContainsText(run.Branch, o.Branch))
            /\ (o.Status # "" => StatusKeeps(o.Status, run))
            /\ ~(sinceTime # ZeroTime /\ run.StartTime < sinceTime)
            /\ ~(o.Command.set /\ ~ContainsText(run.Command, o.Command.lit))
    IN  IF o.Since # <<>> /\ ~since.ok
        THEN [runs |-> <<>>, err |-> "invalid 'since' format"]
        ELSE IF o.Command.set /\ ~o.Command.valid
        THEN [runs |-> <<>>, err |-> "invalid command pattern"]
        ELSE [runs |-> SelectSeq(runs, keep), err |-> ""]

compareInt(a, b) == IF a < b THEN -1 ELSE IF a > b THEN 1 ELSE 0

\* The bytes and literals of branch names in the order of their bytes.
SymbolOrder == <<"-", "/", "a", "main", "x", "y">>
SymbolRank(c) == CHOOSE i \in 1..Len(SymbolOrder) : SymbolOrder[i] = c

RECURSIVE CompareText(_, _)
\* strings.Compare(a, b)
CompareText(a, b) ==
    IF a = <<>> /\ b = <<>> THEN 0
    ELSE IF a = <<>> THEN -1
    ELSE IF b = <<>> THEN 1
    ELSE IF Head(a) # Head(b) THEN compareInt(SymbolRank(Head(a)), SymbolRank(Head(b)))
    ELSE CompareText(Tail(a), Tail(b))

\* The least time.Duration: what Sub returns when the difference does not
\* fit, as for the zero EndTime of a running run.
MinDuration == -2147483647
SubTime(t, u) == IF t = ZeroTime THEN MinDuration ELSE t - u

\* sortFunc of sortRuns for a key, before the reverse flag is applied.
SortKeyCompare(sortBy, a, b) ==
    IF sortBy = "branch" THEN CompareText(a.Branch, b.Branch)
    ELSE IF sortBy = "status"
    THEN IF a.IsRunning THEN (IF b.IsRunning THEN 0 ELSE -1)
         ELSE IF b.IsRunning THEN 1
         ELSE compareInt(a.ExitStatus, b.ExitStatus)
    ELSE IF sortBy = "duration"
    THEN compareInt(SubTime(a.EndTime, a.StartTime), SubTime(b.EndTime, b.StartTime))
    ELSE compareInt(a.StartTime, b.StartTime)

SortCompare(sortBy, reverse, a, b) ==
    IF reverse THEN -SortKeyCompare(sortBy, a, b) ELSE SortKeyCompare(sortBy, a, b)

RECURSIVE StableSort(_, _, _)
\* slices.SortStableFunc(runs, sortFunc): each run is put behind the runs
\* already placed that do not compare greater.
StableSort(runs, sortBy, reverse) ==
    IF runs = <<>> THEN <<>>
    ELSE LET front == StableSort(SubSeq(runs, 1, Len(runs) - 1), sortBy, reverse)
             x     == runs[Len(runs)]
             pos   == Cardinality({i \in 1..Len(front) :
                                      SortCompare(sortBy, reverse, front[i], x) <= 0})
         IN  SubSeq(front, 1, pos) \o <<x>> \o SubSeq(front, pos + 1, Len(front))

\* A sort that sorts forward and turns the slice round for the reverse flag.
sortRuns_TurnedRound(runs, sortBy, reverse) ==
    LET forward == StableSort(runs, sortBy, FALSE)
    IN  IF reverse THEN [i \in 1..Len(forward) |-> forward[Len(forward) + 1 - i]]
        ELSE forward

sortRuns(runs, sortBy, reverse) == StableSort(runs, sortBy, reverse)

\* filtered[:cfg.List.Limit] when the limit is above 0 and below the length.
ApplyLimit(runs, limit) ==
    IF limit > 0 /\ limit < Len(runs) THEN SubSeq(runs, 1, limit) ELSE runs

ListFormats == {"json", "csv", "table", "plain"}

\* Main of the list command: what it finds, keeps, sorts and prints, and
\* the error it returns.
ListMain(d, o) ==
    LET found    == findRuns(d)
        filtered == filterRuns(found.runs, o)
        sorted   == sortRuns(filtered.runs, o.SortBy, o.Reverse)
        limited  == ApplyLimit(sorted, o.Limit)
        none     == [found |-> found.runs, filtered |-> <<>>, sorted |-> <<>>,
                     out |-> <<>>, err |-> ""]
    IN  IF found.err # "" THEN [none EXCEPT !.err = "failed to find runs"]
        ELSE IF found.runs = <<>> THEN none
        ELSE IF filtered.err # "" THEN [none EXCEPT !.err = "failed to apply filters"]
        ELSE IF filtered.runs = <<>> THEN none
        ELSE IF o.Format \notin ListFormats
        THEN [none EXCEPT !.filtered = filtered.runs, !.sorted = sorted,
                          !.err = "invalid output format"]
        ELSE [found |-> found.runs, filtered |-> filtered.runs, sorted |-> sorted,
              out |-> limited, err |-> ""]

\* ---------------------------------------------------------------------
\* The list command over a base directory.

MaxLimit == 3

\* The base directory: not there, a plain file, or a directory with entries.
ListDisks ==
    {[zone |-> 0, baseDir |-> b, entries |-> <<>>] : b \in {"missing", "file"}}
    \cup {[zone |-> 0, baseDir |-> "dir", entries |-> e] : e \in EntryLists}

NoPattern == [set |-> FALSE, valid |-> TRUE, lit |-> <<>>]

\* The flags of list as src/cmd/list.go declares them.
DefaultListOptions ==
    [Branch |-> <<>>, Status |-> "", Since |-> <<>>, Command |-> NoPattern,
     SortBy |-> "date", Reverse |-> FALSE, Limit |-> 0, Format |-> "table"]

\* Flag settings: every status, sort key, direction and limit; and each of
\* the other flags set alone.
ListOptions ==
    {[DefaultListOptions EXCEPT !.Status = st, !.SortBy = sb, !.Reverse = rv, !.Limit = n] :
        st \in {"", "success", "failure", "running"},
        sb \in {"date", "branch", "status", "duration"},
        rv \in BOOLEAN, n \in 0..MaxLimit}
    \cup {[DefaultListOptions EXCEPT !.Branch = <<"main">>],
          [DefaultListOptions EXCEPT !.Branch = <<"/">>],
          [DefaultListOptions EXCEPT !.Since = <<"1", "m">>],
          [DefaultListOptions EXCEPT !.Since = <<"m">>],
          [DefaultListOptions EXCEPT !.Command = [set |-> TRUE, valid |-> TRUE, lit |-> <<"sleep">>]],
          [DefaultListOptions EXCEPT !.Command = [set |-> TRUE, valid |-> TRUE, lit |-> <<"make">>]],
          [DefaultListOptions EXCEPT !.Command = [set |-> TRUE, valid |-> FALSE, lit |-> <<"(">>]],
          [DefaultListOptions EXCEPT !.Format = "xml"]}

ListInit ==
    /\ RunIdle
    /\ file = NoFile /\ phase = "idle" /\ initArgs = <<>> /\ endArgs = <<>>
    /\ parsed = <<>> /\ writeErr = ""
    /\ tool = NoTool
    /\ disk \in ListDisks

CallFindRuns ==
    /\ tool.op = "none"
    /\ tool' = [op |-> "findRuns", res |-> findRuns(disk)]
    /\ UNCHANGED <<disk, codecVars, runVars>>

CallListMain ==
    /\ tool.op = "none"
    /\ \E o \in ListOptions :
          tool' = [op |-> "list", o |-> o, res |-> ListMain(disk, o)]
    /\ UNCHANGED <<disk, codecVars, runVars>>

ListNext == CallFindRuns \/ CallListMain
ListSpec == ListInit /\ [][ListNext]_vars

\* The directory names of a list of runs, and the names of a list of entries.
DirectoriesOf(runs) == [i \in 1..Len(runs) |-> runs[i].Directory]
NamesOf(entries) == [i \in 1..Len(entries) |-> entries[i].name]

\* The entries that are directories named as run.go names a run.
IsRunDirectory(entry) ==
    entry.isDir /\ \E i \in 1..3 : entry.name = EntryNames[i]
RunDirectories == SelectSeq(disk.entries, IsRunDirectory)

\* A run directory whose record cannot be read as a record: there is none,
\* or its exit status is not a number.
Unparseable(entry) == IsRunDirectory(entry) /\ entry.what \in {"missing", "badexit"}
SomeUnparseable == \E i \in 1..Len(disk.entries) : Unparseable(disk.entries[i])

\* C16 (as amended): findRuns returns no runs and no error for a missing
\* base directory; and when the record of every run directory parses, it
\* returns without error one run per immediate subdirectory named
\* <timestamp>_<branch>_<7 lowercase hex>, in the order of the entries, and
\* nothing for plain files and other names.
C16_OneRunPerRunDirectory ==
    tool.op = "findRuns" =>
        /\ disk.baseDir = "missing" => tool.res = [runs |-> <<>>, err |-> ""]
        /\ (disk.baseDir = "dir" /\ ~SomeUnparseable) =>
              /\ tool.res.err = ""
              /\ DirectoriesOf(tool.res.runs) = NamesOf(RunDirectories)

\* C16 witness: a plain file named as a run, a run directory and a
\* directory with another name; one run is returned.
C16_FileAndOtherNameLeftOut ==
    /\ tool.op = "findRuns"
    /\ Len(disk.entries) = 3
    /\ ~disk.entries[1].isDir
    /\ disk.entries[3].name = EntryNames[4]
    /\ Len(tool.res.runs) = 1

\* C16 as stated: findRuns returns one run per run directory of the base
\* directory, whatever the records are.
C16_AlwaysOneRunPerRunDirectory ==
    (tool.op = "findRuns" /\ disk.baseDir = "dir") =>
        DirectoriesOf(tool.res.runs) = NamesOf(RunDirectories)

OnlyStatusFilter ==
    /\ tool.op = "list"
    /\ tool.o.Branch = <<>> /\ tool.o.Since = <<>> /\ ~tool.o.Command.set
    /\ disk.baseDir = "dir" /\ ~SomeUnparseable
    /\ tool.res.err = ""

StatusClasses == {"success", "failure", "running"}

\* C12: the status filter partitions the runs: 'success' keeps exactly the
\* runs whose record has a results block with exit status 0, 'failure' those
\* with a results block and another exit status, 'running' those without a
\* results block; every run is kept by exactly one of the three; and the
\* runs kept stand in the order they were found in.
C12_StatusPartition ==
    OnlyStatusFilter =>
        /\ tool.o.Status \in StatusClasses =>
              DirectoriesOf(tool.res.filtered) =
                 NamesOf(SelectSeq(RunDirectories, LAMBDA e : e.what = tool.o.Status))
        /\ \A i \in 1..Len(tool.res.found) :
              /\ Cardinality({st \in StatusClasses : StatusKeeps(st, tool.res.found[i])}) = 1
              /\ StatusKeeps(RunDirectories[i].what, tool.res.found[i])

\* C12 witness: three runs, one of each class, in the order running,
\* success, failure, and the filter 'success' has kept the second alone.
C12_OneOfEachClass ==
    /\ OnlyStatusFilter
    /\ tool.o.Status = "success"
    /\ Len(RunDirectories) = 3
    /\ RunDirectories[1].what = "running"
    /\ RunDirectories[2].what = "success"
    /\ RunDirectories[3].what = "failure"
    /\ DirectoriesOf(tool.res.filtered) = <<RunDirectories[2].name>>

\* list was called with the default sort key on runs that all started at
\* different instants, and has printed.
DateSorted ==
    /\ tool.op = "list"
    /\ tool.o.SortBy = "date"
    /\ tool.res.err = ""
    /\ \A i, j \in 1..Len(tool.res.filtered) :
          i # j => tool.res.filtered[i].StartTime # tool.res.filtered[j].StartTime

\* C13: with the default sort key and runs of distinct start times, without
\* the reverse flag the runs are listed most recent first, with it in the
\* exact inverse order; a limit n above 0 keeps the first n of the filtered
\* and sorted runs, and all of them when n is 0 or not below their number.
C13_MostRecentFirst ==
    DateSorted =>
        /\ \A i, j \in 1..Len(tool.res.sorted) :
              i < j => IF tool.o.Reverse
                       THEN tool.res.sorted[i].StartTime < tool.res.sorted[j].StartTime
                       ELSE tool.res.sorted[i].StartTime > tool.res.sorted[j].StartTime
        /\ tool.res.out =
              IF tool.o.Limit > 0 /\ tool.o.Limit < Len(tool.res.sorted)
              THEN SubSeq(tool.res.sorted, 1, tool.o.Limit)
              ELSE tool.res.sorted

\* C13 diverges: two runs of distinct start times listed with the default
\* flags, and the older one is printed first.
C13_OldestFirst ==
    /\ DateSorted
    /\ tool.o = DefaultListOptions
    /\ Len(tool.res.out) = 2
    /\ tool.res.out[1].StartTime < tool.res.out[2].StartTime

\* What of C13 the code does: the order is by start time ascending without
\* the reverse flag, descending with it, and the limit is applied to the
\* filtered and sorted runs.
C13_AscendingUnlessReversed ==
    DateSorted =>
        /\ \A i, j \in 1..Len(tool.res.sorted) :
              i < j => IF tool.o.Reverse
                       THEN tool.res.sorted[i].StartTime > tool.res.sorted[j].StartTime
                       ELSE tool.res.sorted[i].StartTime < tool.res.sorted[j].StartTime
        /\ tool.res.out =
              IF tool.o.Limit > 0 /\ tool.o.Limit < Len(tool.res.sorted)
              THEN SubSeq(tool.res.sorted, 1, tool.o.Limit)
              ELSE tool.res.sorted

\* ---------------------------------------------------------------------
\* The status command over a base directory.

RECURSIVE WalkLoop(_, _, _)
\* The function filepath.Walk calls for each entry of the base directory:
\* a plain file and a directory with another name add nothing to the runs;
\* a run directory whose record does not parse is logged and left out; the
\* others are appended.  The sizes summed into DiskUsage are not modelled.
WalkLoop(entries, i, runs) ==
    IF i > Len(entries) THEN runs
    ELSE IF ~entries[i].isDir THEN WalkLoop(entries, i + 1, runs)
    ELSE IF ~MatchesRunPattern(entries[i].name) THEN WalkLoop(entries, i + 1, runs)
    ELSE LET runInfo == ParsedFiles[entries[i].file]
         IN  WalkLoop(entries, i + 1,
                 IF runInfo.err # "" THEN runs ELSE Append(runs, runInfo))

\* slices.Reverse
ReverseSeq(q) == [i \in 1..Len(q) |-> q[Len(q) + 1 - i]]

\* The counting loop and the reversal at the end of getProjectStats.
StatsOf(runs) ==
    [TotalRuns    |-> Len(runs),
     RunningCount |-> Len(SelectSeq(runs, LAMBDA r : r.IsRunning)),
     SuccessCount |-> Len(SelectSeq(runs, LAMBDA r : ~r.IsRunning /\ r.ExitStatus = 0)),
     FailureCount |-> Len(SelectSeq(runs, LAMBDA r : ~r.IsRunning /\ r.ExitStatus # 0)),
     RecentRuns   |-> ReverseSeq(runs)]

\* getProjectStats(baseDir)
getProjectStats(d) ==
    IF d.baseDir = "missing" THEN [stats |-> StatsOf(<<>>), err |-> ""]
    ELSE IF d.baseDir # "dir" THEN [stats |-> StatsOf(<<>>), err |-> ""]
    ELSE [stats |-> StatsOf(WalkLoop(d.entries, 1, <<>>)), err |-> ""]

StatusInit == ListInit

CallGetProjectStats ==
    /\ tool.op = "none"
    /\ tool' = [op |-> "stats", res |-> getProjectStats(disk)]
    /\ UNCHANGED <<disk, codecVars, runVars>>

\* Show of the status command: the statistics, then the text.
CallShow ==
    /\ tool.op = "stats"
    /\ tool' = [tool EXCEPT !.op = "shown"]
    /\ UNCHANGED <<disk, codecVars, runVars>>

StatusNext == CallGetProjectStats \/ CallShow
StatusSpec == StatusInit /\ [][StatusNext]_vars

\* C18: when the record of a run directory fails to parse, getProjectStats
\* returns no error, reports the other runs, and counts the unparseable run
\* as a running one, in the total and in the running count.
C18_UnparseableCountedRunning ==
    (tool.op = "stats" /\ disk.baseDir = "dir" /\ SomeUnparseable) =>
        /\ tool.res.err = ""
        /\ tool.res.stats.TotalRuns = Len(RunDirectories)
        /\ tool.res.stats.RunningCount =
              Len(SelectSeq(RunDirectories, LAMBDA e : e.what \in {"running", "missing", "badexit"}))

\* C18 diverges: a run directory with a good record and one with no record;
\* the statistics count one run in total and none as running.
C18_UnparseableNotCounted ==
    /\ tool.op = "stats"
    /\ Len(RunDirectories) = 2
    /\ RunDirectories[1].what = "success"
    /\ RunDirectories[2].what = "missing"
    /\ tool.res.err = ""
    /\ tool.res.stats.TotalRuns = 1
    /\ tool.res.stats.RunningCount = 0
    /\ tool.res.stats.SuccessCount = 1

\* What of C18 the code does: no error, and the runs whose records parse
\* are all counted, each in its class.
C18_OthersReported ==
    (tool.op = "stats" /\ disk.baseDir = "dir") =>
        /\ tool.res.err = ""
        /\ tool.res.stats.TotalRuns = Len(SelectSeq(RunDirectories, LAMBDA e : ~Unparseable(e)))
        /\ tool.res.stats.RunningCount = Len(SelectSeq(RunDirectories, LAMBDA e : e.what = "running"))
        /\ tool.res.stats.SuccessCount = Len(SelectSeq(RunDirectories, LAMBDA e : e.what = "success"))
        /\ tool.res.stats.FailureCount = Len(SelectSeq(RunDirectories, LAMBDA e : e.what = "failure"))

\* ---------------------------------------------------------------------
\* The archive command.

\* Offsets of the local zone east of UTC, and the year Run adds to the clock
\* when no older-than is given, on the scale of the instants used here: a
\* year is beyond every stamp a directory name can hold.
ZoneOffsets == {0, 3000000}
OneYear == 36000000

\* The name run.go gives the directory of an entry in a local zone: the
\* stamp is the wall clock of the start in that zone.
NameInZone(entry, zone) ==
    FormatStamp(entry.start + zone) \o SubSeq(entry.name, StampLen + 1, Len(entry.name))

InZone(entries, zone) ==
    [i \in 1..Len(entries) |-> [entries[i] EXCEPT !.name = NameInZone(entries[i], zone)]]

\* time.Parse("2006-01-02T15:04:05.000", stamp): the layout has no zone, the
\* wall clock is taken as one of UTC.
ParseStamp(stamp) ==
    IF IsStamp(stamp)
    THEN [ok |-> TRUE, t |-> DigitsToNat(SubSeq(stamp, 2, StampLen), 0) * 1000]
    ELSE [ok |-> FALSE, t |-> ZeroTime]

\* parseCutoff(cutoff): the instant that long before now.
parseCutoff(s) ==
    LET d == parseDuration(s)
    IN  IF d.ok THEN [ok |-> TRUE, t |-> ClockNow - d.val, d |-> d.ns]
        ELSE [ok |-> FALSE, t |-> ZeroTime, d |-> Int64Of(0)]

\* The cutoff Run hands to filterRunsToArchive.
CutoffOf(olderThan) ==
    IF olderThan # <<>> THEN parseCutoff(olderThan)
    ELSE [ok |-> TRUE, t |-> ClockNow + OneYear]

\* The status test of filterRunsToArchive: TRUE when the run is kept.
ArchiveStatusKeeps(status, runInfo) ==
    (status # "" /\ status # "all") =>
        /\ ~(status = "success" /\ runInfo.ExitStatus # 0)
        /\ ~(status = "failure" /\ runInfo.ExitStatus = 0)

RECURSIVE ArchiveFilterLoop(_, _, _, _, _)
\* for _, runDir := range runDirs { ... } of filterRunsToArchive; the run
\* directories are entries of the base directory.  dirName[:23] of a shorter
\* name is a slice out of range: the process panics and nothing is returned.
\* An error of ParseRunInfo is logged and the record it returned is used.
ArchiveFilterLoop(entries, i, cutoff, status, results) ==
    IF i > Len(entries) THEN [results |-> results, panicked |-> FALSE]
    ELSE IF ~entries[i].isDir
    THEN ArchiveFilterLoop(entries, i + 1, cutoff, status, results)
    ELSE IF Len(entries[i].name) < StampLen
    THEN [results |-> <<>>, panicked |-> TRUE]
    ELSE LET e         == entries[i]
             timestamp == ParseStamp(SubSeq(e.name, 1, StampLen))
             runInfo   == ParseRunInfoIn(e)
             keep      == /\ timestamp.ok
                          /\ timestamp.t < cutoff
                          /\ ~runInfo.IsRunning
                          /\ ArchiveStatusKeeps(status, runInfo)
         IN  ArchiveFilterLoop(entries, i + 1, cutoff, status,
                               IF keep THEN Append(results, runInfo) ELSE results)

\* Whether filterRunsToArchive panics on the entries of d.
filterPanics(d, cutoff, status) ==
    ArchiveFilterLoop(d.entries, 1, cutoff, status, <<>>).panicked

\* filterRunsToArchive(runDirs, cutoff, status) on the entries of d.
filterRunsToArchive(d, cutoff, status) ==
    ArchiveFilterLoop(d.entries, 1, cutoff, status, <<>>).results

\* The run directories given to archive: entries of a base directory that
\* run.go named in the local zone.
ArchiveFilterDisks ==
    {[zone |-> z, baseDir |-> "dir", entries |-> InZone(e, z)] :
        e \in EntryLists, z \in ZoneOffsets}

\* Other arguments of archive: a directory and a plain file with a name
\* shorter than a stamp, a directory with a longer name that starts with no
\* stamp, none of them with a record; and the directory of a run that ended
\* with 0.
OtherEntries ==
    {[name |-> <<"t", "m", "p">>, isDir |-> TRUE, what |-> "missing",
      start |-> ZeroTime, file |-> NoFile],
     [name |-> <<"o", "u", "t">>, isDir |-> FALSE, what |-> "file",
      start |-> ZeroTime, file |-> NoFile],
     [name |-> <<"T", "o", "d", "o", "-", "l", "i", "s", "t">>, isDir |-> TRUE,
      what |-> "missing", start |-> ZeroTime, file |-> NoFile],
     EntryAt(1, "success")}

MaxOtherEntries == 2

OtherDisks ==
    {[zone |-> 0, baseDir |-> "dir", entries |-> e] :
        e \in UNION {[1..n -> OtherEntries] : n \in 1..MaxOtherEntries}}

ArchiveFilterInit ==
    /\ RunIdle
    /\ file = NoFile /\ phase = "idle" /\ initArgs = <<>> /\ endArgs = <<>>
    /\ parsed = <<>> /\ writeErr = ""
    /\ tool = NoTool
    /\ disk \in ArchiveFilterDisks \cup OtherDisks

CallFilterRunsToArchive ==
    /\ tool.op = "none"
    /\ \E olderThan \in {<<>>, <<"1", "m">>}, status \in {"", "all", "success", "failure"} :
          tool' = [op |-> "filter", olderThan |-> olderThan, status |-> status,
                   cutoff |-> CutoffOf(olderThan).t,
                   panicked |-> filterPanics(disk, CutoffOf(olderThan).t, status),
                   res |-> filterRunsToArchive(disk, CutoffOf(olderThan).t, status)]
    /\ UNCHANGED <<disk, codecVars, runVars>>

\* Run lists the runs it has selected.
ListSelected ==
    /\ tool.op = "filter"
    /\ ~tool.panicked
    /\ tool' = [tool EXCEPT !.op = "listed"]
    /\ UNCHANGED <<disk, codecVars, runVars>>

ArchiveFilterNext == CallFilterRunsToArchive \/ ListSelected
ArchiveFilterSpec == ArchiveFilterInit /\ [][ArchiveFilterNext]_vars

\* The given directories hold records as moco run writes them.
RecordsAsWritten ==
    \A i \in 1..Len(disk.entries) :
        disk.entries[i].isDir => disk.entries[i].what \in {"success", "failure", "running"}

\* A given run that is finished, was started before the cutoff and has the
\* status asked for.
ToBeArchived(e) ==
    /\ e.isDir
    /\ e.what \in {"success", "failure"}
    /\ e.start < tool.cutoff
    /\ (tool.status \in {"", "all"} \/ tool.status = e.what)

\* C14: filterRunsToArchive returns exactly the given runs that are
\* finished, whose start time is before the cutoff and whose status matches
\* the filter ('success', 'failure', or every finished run for 'all' and for
\* no status); a running run is never returned; without older-than and
\* status every finished run is returned.
C14_ExactlyFinishedBeforeCutoff ==
    (tool.op = "filter" /\ RecordsAsWritten) =>
        DirectoriesOf(tool.res) = NamesOf(SelectSeq(disk.entries, ToBeArchived))

\* C14 diverges: in a zone east of UTC a run that finished with 0 and was
\* started before the cutoff is not returned.
C14_OldRunLeftOut ==
    /\ tool.op = "filter"
    /\ RecordsAsWritten
    /\ disk.zone > 0
    /\ tool.olderThan = <<"1", "m">>
    /\ tool.status = "success"
    /\ Len(disk.entries) = 1
    /\ disk.entries[1].what = "success"
    /\ disk.entries[1].start < tool.cutoff
    /\ tool.res = <<>>

\* What of C14 the code does: where the local zone is UTC the runs returned
\* are exactly those of the claim; in every zone a running run is never
\* returned, and without older-than every finished run with the status
\* asked for is.
C14_ExactInUTC ==
    (tool.op = "filter" /\ RecordsAsWritten) =>
        /\ disk.zone = 0 =>
              DirectoriesOf(tool.res) = NamesOf(SelectSeq(disk.entries, ToBeArchived))
        /\ \A i \in 1..Len(tool.res) : ~tool.res[i].IsRunning
        /\ tool.olderThan = <<>> =>
              DirectoriesOf(tool.res) = NamesOf(SelectSeq(disk.entries, ToBeArchived))

\* ---------------------------------------------------------------------
\* Run of the archive command, step by step.

\* [archive] format of the default configuration.
ConfigArchiveFormat == "tar.gz"

\* The run directories given: of runs that ended with 0 or are running, a
\* plain file, named in UTC.
ArchiveDisks ==
    {d \in ArchiveFilterDisks :
        /\ d.zone = 0
        /\ \A i \in 1..Len(d.entries) : d.entries[i].what \in {"success", "running", "file"}}

DefaultArchiveOptions ==
    [OlderThan |-> <<>>, Status |-> "", Format |-> "", Delete |-> FALSE, DryRun |-> FALSE]

\* Flag settings: delete and dry-run in every combination; and each of the
\* other flags set alone.
ArchiveOptions ==
    {[DefaultArchiveOptions EXCEPT !.Delete = del, !.DryRun = dry] : del, dry \in BOOLEAN}
    \cup {[DefaultArchiveOptions EXCEPT !.Format = f] : f \in {"zip", "rar"}}
    \cup {[DefaultArchiveOptions EXCEPT !.OlderThan = o] : o \in {<<"1", "m">>, <<"x">>}}
    \cup {[DefaultArchiveOptions EXCEPT !.Status = "failure"]}

ArchiveInit ==
    /\ RunIdle
    /\ file = NoFile /\ phase = "idle" /\ initArgs = <<>> /\ endArgs = <<>>
    /\ parsed = <<>> /\ writeErr = ""
    /\ tool = NoTool
    /\ disk \in ArchiveDisks

\* Run has returned err.
ArchiveReturn(t, err) == [t EXCEPT !.pc = "done", !.err = err]

\* Run up to the question to the user: the format, the cutoff, the runs
\* selected, the dry run.
ArchiveBegin ==
    /\ tool.op = "none"
    /\ \E opts \in ArchiveOptions :
          LET format   == IF opts.Format = "" THEN ConfigArchiveFormat ELSE opts.Format
              cutoff   == CutoffOf(opts.OlderThan)
              runInfos == filterRunsToArchive(disk, cutoff.t, opts.Status)
              t        == [op |-> "archive", pc |-> "confirm", opts |-> opts,
                           format |-> format, runInfos |-> <<>>, i |-> 1,
                           confirmed |-> FALSE, made |-> FALSE,
                           archives |-> <<>>, removed |-> <<>>, err |-> ""]
          IN  tool' =
                 IF format # "tar.gz" /\ format # "zip"
                 THEN ArchiveReturn(t, "unsupported archive format")
                 ELSE IF ~cutoff.ok
                 THEN ArchiveReturn(t, "invalid olderThan format")
                 ELSE IF runInfos = <<>>
                 THEN ArchiveReturn(t, "no runs found matching the criteria")
                 ELSE IF opts.DryRun
                 THEN ArchiveReturn([t EXCEPT !.runInfos = runInfos], "")
                 ELSE [t EXCEPT !.runInfos = runInfos]
    /\ UNCHANGED <<disk, codecVars, runVars>>

\* confirmArchive() and os.MkdirAll(destDir): the answer of the user, and
\* whether the destination directory could be made.
ConfirmArchive ==
    /\ tool.op = "archive" /\ tool.pc = "confirm"
    /\ \E answer \in BOOLEAN, mkdir \in BOOLEAN :
          tool' =
             IF ~answer THEN ArchiveReturn(tool, "")
             ELSE IF ~mkdir
             THEN ArchiveReturn([tool EXCEPT !.confirmed = TRUE],
                                "failed to create destination directory")
             ELSE [tool EXCEPT !.confirmed = TRUE, !.made = TRUE, !.pc = "loop"]
    /\ UNCHANGED <<disk, codecVars, runVars>>

\* What archiveToTarGz and archiveToZip can come to: the archive is written
\* and closed; creating the file or the walk fails and the error is
\* returned; the walk succeeds and a deferred Close of the writers or of the
\* file fails, whose error is dropped.
ArchiveOutcomes == {"written", "failed", "unclosed"}

\* archiveDirectory(runDir, archivePath, format): the error it returns.
archiveDirectory(outcome) == IF outcome = "failed" THEN "failed" ELSE ""

\* One round of the loop of Run: the archive of run i, then the removal of
\* its directory when asked for; rm says whether os.RemoveAll succeeds.
ArchiveOne ==
    /\ tool.op = "archive" /\ tool.pc = "loop"
    /\ \E outcome \in ArchiveOutcomes, rm \in BOOLEAN :
          LET runDir   == tool.runInfos[tool.i].Directory
              archived == [tool EXCEPT !.archives =
                              Append(@, [of |-> runDir, state |-> outcome])]
              next(t)  == IF t.i = Len(t.runInfos)
                          THEN ArchiveReturn(t, "")
                          ELSE [t EXCEPT !.i = @ + 1]
          IN  tool' =
                 IF archiveDirectory(outcome) # ""
                 THEN ArchiveReturn(archived, "failed to archive")
                 ELSE IF ~tool.opts.Delete
                 THEN next(archived)
                 ELSE IF ~rm
                 THEN ArchiveReturn([archived EXCEPT !.removed =
                                        Append(@, [of |-> runDir, whole |-> FALSE])],
                                    "failed to delete")
                 ELSE next([archived EXCEPT !.removed =
                               Append(@, [of |-> runDir, whole |-> TRUE])])
    /\ UNCHANGED <<disk, codecVars, runVars>>

ArchiveNext == ArchiveBegin \/ ConfirmArchive \/ ArchiveOne
ArchiveSpec == ArchiveInit /\ [][ArchiveNext]_vars

\* Run has made the destination directory, written to an archive or removed
\* from a run directory.
FilesystemChanged ==
    tool.op = "archive" /\ (tool.made \/ tool.archives # <<>> \/ tool.removed # <<>>)

\* The archive of runDir was written without error.
WrittenWithoutError(runDir) ==
    \E k \in 1..Len(tool.archives) :
        tool.archives[k].of = runDir /\ tool.archives[k].state = "written"

\* C15: archive changes nothing on the filesystem unless the format and the
\* older-than are valid, at least one run is selected, dry-run is off and
\* the user has confirmed; and it deletes an original directory only when
\* the delete flag is set and only after the archive of that run was written
\* without error.
C15_ChangesOnlyWhenConfirmed ==
    /\ FilesystemChanged =>
          /\ tool.opts.Format \in {"", "tar.gz", "zip"}
          /\ tool.opts.OlderThan \in {<<>>, <<"1", "m">>}
          /\ tool.runInfos # <<>>
          /\ ~tool.opts.DryRun
          /\ tool.confirmed
    /\ tool.op = "archive" =>
          \A k \in 1..Len(tool.removed) :
              tool.opts.Delete /\ WrittenWithoutError(tool.removed[k].of)

\* C15 diverges: closing the archive of a run failed, Run went on and has
\* removed the directory of that run.
C15_RemovedAfterFailedClose ==
    /\ tool.op = "archive"
    /\ tool.pc = "done" /\ tool.err = ""
    /\ Len(tool.removed) = 1
    /\ tool.removed[1].whole
    /\ tool.archives = <<[of |-> tool.removed[1].of, state |-> "unclosed"]>>

\* What of C15 the code does: nothing is changed before the confirmation,
\* and a directory is removed only with the delete flag and after
\* archiveDirectory returned no error for it.
C15_RemovedAfterNoErrorReturned ==
    /\ FilesystemChanged =>
          /\ tool.opts.Format \in {"", "tar.gz", "zip"}
          /\ tool.opts.OlderThan \in {<<>>, <<"1", "m">>}
          /\ tool.runInfos # <<>>
          /\ ~tool.opts.DryRun
          /\ tool.confirmed
    /\ tool.op = "archive" =>
          \A k \in 1..Len(tool.removed) :
              /\ tool.opts.Delete
              /\ \E j \in 1..Len(tool.archives) :
                    /\ tool.archives[j].of = tool.removed[k].of
                    /\ tool.archives[j].state # "failed"

\* ---------------------------------------------------------------------
\* C19: the order of the record and the child in Main.

\* Main is between cmd.Start and the end of WriteSummaryFileEnd.
ChildStartedByMain == pc \in {"select", "forward", "drain", "writeend"}

\* C19: the initial block is completely written before the child is
\* started, and the results block is appended only after the child has
\* terminated and cmd.Wait has returned; on the interrupted path too, Main
\* goes on to the results block only when the child has exited.
C19_RecordOrder ==
    /\ child.state # "none" => "summary" \in hist.created
    /\ ChildStartedByMain =>
          /\ child.state # "none"
          /\ fs.summary.exists
          /\ fs.summary.content =
                WriteSummaryFileInit(loc.startTime, RunRepo, RunCommand, RunEnv)
    /\ pc = "writeend" => child.state = "reaped"
    /\ Appended => child.state = "reaped"

\* C19 witness: the signal was taken while the child ran and was sent on to
\* it; the child has ended, cmd.Wait has returned and the results block is
\* appended.
C19_AppendedAfterInterrupt ==
    /\ Appended
    /\ loc.interrupted
    /\ hist.childAtSignal = "running"
    /\ hist.forwarded
    /\ child.state = "reaped"

\* ---------------------------------------------------------------------
\* ParseRunInfo and the fenced regions of a record.

MaxFencedLines == 2

\* Lines that do not start with three backticks: of a diff, with the labels
\* ParseRunInfo looks for, longer than the scanner takes, with three
\* backticks behind a space.
FencedLines ==
    {<<"+", "fix">>, <<LblExit, "7">>, <<LblStart, "yesterday">>,
     <<"- ", TermMark>>, <<"+", LongRun>>, <<SP, BT, BT, BT>>}

RECURSIVE JoinFeed(_)
\* The lines with a line feed between them.
JoinFeed(lines) ==
    IF lines = <<>> THEN <<>>
    ELSE IF Len(lines) = 1 THEN lines[1]
    ELSE lines[1] \o <<NL>> \o JoinFeed(Tail(lines))

FencedContents ==
    {JoinFeed(ls) : ls \in UNION {[1..n -> FencedLines] : n \in 0..MaxFencedLines}}

\* The record of a run of branch main that was interrupted and ended with
\* 130, with the given text in the fenced region of the commit details.
FencedRecord(content) ==
    LET repo == RepoOf(<<"main">>, FALSE)
    IN  [exists |-> TRUE,
         content |-> WriteSummaryFileInit(1000000, repo, << <<"sleep">>, <<"5">> >>,
                                          EnvOf(repo, content))
                     \o WriteSummaryFileEnd(1000000, 3000000, ExitInterrupted, TRUE)]

ParsedFenced == [c \in FencedContents |-> ParseRunInfo(FencedRecord(c))]

FenceInit ==
    /\ RunIdle
    /\ file = NoFile /\ phase = "idle" /\ initArgs = <<>> /\ endArgs = <<>>
    /\ parsed = <<>> /\ writeErr = ""
    /\ ToolIdle

\* ParseRunInfo of a record, and of the record with the content of the
\* fenced region replaced.
CallParseRunInfoReplaced ==
    /\ tool.op = "none"
    /\ \E a, b \in FencedContents :
          tool' = [op |-> "fenced", a |-> a, b |-> b,
                   ra |-> ParsedFenced[a], rb |-> ParsedFenced[b]]
    /\ UNCHANGED <<disk, codecVars, runVars>>

FenceNext == CallParseRunInfoReplaced
FenceSpec == FenceInit /\ [][FenceNext]_vars

\* C20: ParseRunInfo never takes a field from a line inside a fenced region:
\* replacing the content of a fenced region by any lines that do not start
\* with three backticks leaves the parsed record unchanged.
C20_FencedContentIgnored ==
    tool.op = "fenced" => tool.ra = tool.rb

\* C20 diverges: with a diff line in the fenced region the record is that
\* of a finished, interrupted run; with a line longer than the scanner takes
\* in its place the record is that of a running run.
C20_LongLineChangesRecord ==
    /\ tool.op = "fenced"
    /\ tool.a = <<"+", "fix">>
    /\ tool.b = <<"+", LongRun>>
    /\ tool.ra.err = "" /\ ~tool.ra.IsRunning /\ tool.ra.ExitStatus = ExitInterrupted
    /\ tool.rb.err = "" /\ tool.rb.IsRunning /\ tool.rb.ExitStatus = 0

\* What of C20 the code does: fenced lines the scanner can return leave the
\* record unchanged, whatever labels they hold.
C20_ShortLinesIgnored ==
    (tool.op = "fenced" /\ ~Contains(tool.a, LongRun) /\ ~Contains(tool.b, LongRun)) =>
        /\ tool.ra = tool.rb
        /\ tool.ra.err = "" /\ ~tool.ra.IsRunning /\ tool.ra.Interrupted
        /\ tool.ra.StartTime = 1000000

\* ---------------------------------------------------------------------
\* C21: the granularity of the timestamps of a record, under CodecSpec.

\* An instant without its part below the millisecond.
TruncMilli(t) == (t \div 1000) * 1000

\* C21: the StartTime and EndTime ParseRunInfo returns are the instants
\* given to WriteSummaryFileInit and WriteSummaryFileEnd truncated to the
\* millisecond.
C21_MillisecondKept ==
    (phase = "end" /\ parsed # <<>> /\ parsed[1].err = "") =>
        /\ parsed[1].StartTime = TruncMilli(initArgs[1].startTime)
        /\ parsed[1].EndTime = TruncMilli(endArgs[1].endTime)

\* C21 diverges: a run started 1.2505 s and ended 63.999999 s after the
\* epoch of the model parses as started at 1 s and ended at 63 s.
C21_WholeSecondsOnly ==
    /\ phase = "end" /\ parsed # <<>> /\ parsed[1].err = ""
    /\ initArgs[1].startTime = 1250500
    /\ endArgs[1].endTime = 63999999
    /\ parsed[1].StartTime = 1000000
    /\ parsed[1].EndTime = 63000000

\* ---------------------------------------------------------------------
\* C22: the order sortRuns gives, under ListSpec.

\* The key of a run as a pair of numbers: the start time; the place of the
\* branch among the branches of the base directory; running before finished
\* and then the exit status; the duration, a running run having the least.
KeyOf(sortBy, run) ==
    IF sortBy = "branch" THEN <<0, IF run.Branch = <<"main">> THEN 1 ELSE 2>>
    ELSE IF sortBy = "status"
    THEN IF run.IsRunning THEN <<0, 0>> ELSE <<1, run.ExitStatus>>
    ELSE IF sortBy = "duration"
    THEN IF run.IsRunning THEN <<0, 0>> ELSE <<1, run.EndTime - run.StartTime>>
    ELSE <<0, run.StartTime>>

KeyBefore(sortBy, a, b) ==
    LET ka == KeyOf(sortBy, a)
        kb == KeyOf(sortBy, b)
    IN  ka[1] < kb[1] \/ (ka[1] = kb[1] /\ ka[2] < kb[2])

\* The place of a run among the runs before the sort.
DiscoveryPlace(run) ==
    CHOOSE i \in 1..Len(tool.res.filtered) : tool.res.filtered[i].Directory = run.Directory

\* list has sorted the runs it kept.
Sorted == tool.op = "list" /\ tool.res.err = "" /\ tool.res.filtered # <<>>

\* C22: sortRuns is a stable sort for each key: the sorted runs are the
\* filtered runs; without the reverse flag no run stands before a run of a
\* smaller key, with it none stands before a run of a greater key; and runs
\* of equal keys stand in their discovery order, with and without the flag.
C22_StableForEachKey ==
    Sorted =>
        /\ Len(tool.res.sorted) = Len(tool.res.filtered)
        /\ \A i \in 1..Len(tool.res.filtered) :
              \E j \in 1..Len(tool.res.sorted) : tool.res.sorted[j] = tool.res.filtered[i]
        /\ \A i, j \in 1..Len(tool.res.sorted) :
              i < j =>
                 LET a == tool.res.sorted[i]
                     b == tool.res.sorted[j]
                 IN  /\ ~tool.o.Reverse => ~KeyBefore(tool.o.SortBy, b, a)
                     /\ tool.o.Reverse => ~KeyBefore(tool.o.SortBy, a, b)
                     /\ (~KeyBefore(tool.o.SortBy, a, b) /\ ~KeyBefore(tool.o.SortBy, b, a))
                           => DiscoveryPlace(a) < DiscoveryPlace(b)

\* C22 witness: sorted by status with the reverse flag, a run that ended
\* with 0, one that ended with 2 and another that ended with 0: the failed
\* run comes first and the other two follow in their discovery order.
C22_ReverseKeepsTies ==
    /\ Sorted
    /\ tool.o.SortBy = "status" /\ tool.o.Reverse
    /\ Len(tool.res.filtered) = 3
    /\ tool.res.filtered[1].ExitStatus = 0 /\ ~tool.res.filtered[1].IsRunning
    /\ tool.res.filtered[2].ExitStatus = 2
    /\ tool.res.filtered[3].ExitStatus = 0 /\ ~tool.res.filtered[3].IsRunning
    /\ tool.res.sorted = <<tool.res.filtered[2], tool.res.filtered[1], tool.res.filtered[3]>>

\* ---------------------------------------------------------------------
\* C23: the run directory of another invocation, under Spec.

\* C23: when a directory of the computed name exists already, Main returns
\* the error of the creation: it writes no file into that directory, starts
\* no child and does not remove it.
C23_ExistingDirectoryRefused ==
    fs.expDir = "foreign" =>
        /\ pc \in {"start", "mkbase", "mkexp", "returned", "exited"}
        /\ hist.created \cap {"expDir", "summary", "stdout", "stderr"} = {}
        /\ fs.summary = NoFile /\ ~fs.stdoutFile /\ ~fs.stderrFile
        /\ child.state = "none" /\ waiter.pc = "none"
        /\ hist.removedBy = "none"
        /\ (MainReturned /\ loc.startTime # ZeroTime) => ret = ErrMkExpDir

\* C23 witness: Main came to os.Mkdir with the directory there and has
\* returned the error of the creation.
C23_ReturnedAtMkdir ==
    /\ fs.expDir = "foreign"
    /\ pc = "exited"
    /\ loc.startTime # ZeroTime
    /\ ret = ErrMkExpDir
    /\ procExit = FatalExit

\* ---------------------------------------------------------------------
\* C24: what Main leaves behind, under Spec.

\* C24: whenever Main returns after it has written the initial block, the
\* run directory is gone or its record parses with IsRunning false.
C24_NoRunningRecordLeft ==
    (MainReturned /\ "summary" \in hist.created) =>
        \/ fs.expDir = "removed"
        \/ ~ParseRunInfo(fs.summary).IsRunning

\* C24 diverges: the file for the standard output of the child could not
\* be created; Main has returned that error and the run directory holds a
\* record that parses as a run in progress.
C24_RunningRecordLeft ==
    /\ MainReturned
    /\ ret = ErrStdoutFile
    /\ fs.expDir = "own"
    /\ fs.summary.exists
    /\ ParseRunInfo(fs.summary).err = ""
    /\ ParseRunInfo(fs.summary).IsRunning
    /\ child.state = "none"

\* What of C24 the code does: a record that looks like a run in progress is
\* left only by the returns for the output files and for the results block;
\* after a failed start of the child the directory is removed.
C24_LeftOnlyByFileErrors ==
    (MainReturned /\ "summary" \in hist.created /\ fs.expDir # "removed"
        /\ ParseRunInfo(fs.summary).IsRunning) =>
            ret \in {ErrStdoutFile, ErrStderrFile, ErrWriteSummary}

\* ---------------------------------------------------------------------
\* C25: what the state of a record depends on, under CodecSpec.

\* The record of the run that differs from the one written in nothing but
\* the command (sleep 5), the branch (main) and the commit details (an
\* ordinary commit): the same start time, and the same results block when
\* one was appended.
PlainTwin ==
    LET repo == RepoOf(<<"main">>, FALSE)
        env  == EnvOf(repo, <<"commit 7a9162c", NL, NL, "    fix status string">>)
    IN  [exists |-> TRUE,
         content |->
            WriteSummaryFileInit(initArgs[1].startTime, repo,
                                 << <<"sleep">>, <<"5">> >>, env)
            \o (IF phase = "end"
                THEN WriteSummaryFileEnd(initArgs[1].startTime, endArgs[1].endTime,
                                         endArgs[1].exitCode, endArgs[1].interrupted)
                ELSE <<>>)]

StateOf(info) == <<info.IsRunning, info.ExitStatus, info.Interrupted>>

\* C25: at every point of their lifecycle two runs that differ only in the
\* command arguments, the branch name or the free-form text parse to the same
\* IsRunning, ExitStatus and Interrupted.
C25_StateFromResultsBlockOnly ==
    (phase \in {"init", "end"} /\ parsed # <<>>) =>
        StateOf(parsed[1]) = StateOf(ParseRunInfo(PlainTwin))

\* C25 diverges: a run of sleep 5 on main that ended with 1, whose commit
\* has a diff line above 64 KiB, parses as running; its twin with an
\* ordinary commit parses as finished with 1.
C25_LongDiffLineLooksRunning ==
    /\ phase = "end" /\ parsed # <<>>
    /\ initArgs[1].command = << <<"sleep">>, <<"5">> >>
    /\ initArgs[1].repo.Branch = <<"main">>
    /\ Contains(initArgs[1].env.commitDetails, LongRun)
    /\ endArgs[1].exitCode = 1
    /\ StateOf(parsed[1]) = <<TRUE, 0, FALSE>>
    /\ StateOf(ParseRunInfo(PlainTwin)) = <<FALSE, 1, endArgs[1].interrupted>>

\* What of C25 the code does: the branch name alone never changes the state
\* a record parses to.
C25_BranchNeverMatters ==
    (phase \in {"init", "end"} /\ parsed # <<>>
        /\ initArgs[1].command = << <<"sleep">>, <<"5">> >>
        /\ initArgs[1].env.commitDetails = <<"commit 7a9162c", NL, NL, "    fix status string">>) =>
        StateOf(parsed[1]) = StateOf(ParseRunInfo(PlainTwin))

\* ---------------------------------------------------------------------
\* C26: records that fail to parse, under ArchiveFilterSpec.

\* C26: filterRunsToArchive never returns a run for whose record
\* ParseRunInfo returned an error, whatever the status filter is.
C26_UnparsedNeverSelected ==
    tool.op = "filter" =>
        \A i \in 1..Len(tool.res) : tool.res[i].err = ""

\* C26 diverges: the one directory given holds a record whose exit status
\* is not a number, and the filter 'success' has returned it.
C26_BadExitStatusSelected ==
    /\ tool.op = "filter"
    /\ tool.status = "success"
    /\ Len(disk.entries) = 1
    /\ disk.entries[1].what = "badexit"
    /\ Len(tool.res) = 1
    /\ tool.res[1].err = "failed to parse exit status"
    /\ ~tool.res[1].IsRunning /\ tool.res[1].ExitStatus = 0

\* What of C26 the code does: a directory without a record is never
\* returned, and the filter 'failure' returns no record that failed to parse.
C26_MissingNeverSelected ==
    tool.op = "filter" =>
        \A i \in 1..Len(tool.res) :
            /\ tool.res[i].err # "failed to open summary file"
            /\ tool.status = "failure" => tool.res[i].err = ""

\* ---------------------------------------------------------------------
\* C27: directory arguments of any name, under ArchiveFilterSpec.

\* An existing directory among the arguments has a name shorter than a stamp.
ShortDirectoryGiven ==
    \E i \in 1..Len(disk.entries) :
        disk.entries[i].isDir /\ Len(disk.entries[i].name) < StampLen

\* C27: filterRunsToArchive completes for every list of directory
\* arguments: an existing directory whose name does not start with a stamp,
\* a shorter name included, is skipped and the others are still processed.
C27_NeverCrashes ==
    tool.op = "filter" =>
        /\ ~tool.panicked
        /\ (tool.olderThan = <<>> /\ tool.status = "") =>
              \A i \in 1..Len(disk.entries) :
                 disk.entries[i] = EntryAt(1, "success") =>
                    \E k \in 1..Len(tool.res) : tool.res[k].Directory = disk.entries[i].name

\* C27 diverges: the directory tmp and the directory of a run that ended
\* with 0 are given; the filter has panicked on the first and returned
\* nothing.
C27_PanicOnShortName ==
    /\ tool.op = "filter"
    /\ tool.olderThan = <<>> /\ tool.status = ""
    /\ disk.entries = <<CHOOSE e \in OtherEntries : e.name = <<"t", "m", "p">>,
                        EntryAt(1, "success")>>
    /\ tool.panicked
    /\ tool.res = <<>>

\* What of C27 the code does: without a short name among the existing
\* directories it completes, skips a longer name that starts with no stamp
\* and goes on with the others.
C27_LongNamesSkipped ==
    (tool.op = "filter" /\ ~ShortDirectoryGiven) =>
        /\ ~tool.panicked
        /\ \A k \in 1..Len(tool.res) : IsStamp(SubSeq(tool.res[k].Directory, 1, StampLen))
        /\ (tool.olderThan = <<>> /\ tool.status = "") =>
              \A i \in 1..Len(disk.entries) :
                 disk.entries[i] = EntryAt(1, "success") =>
                    \E k \in 1..Len(tool.res) : tool.res[k].Directory = disk.entries[i].name

\* ---------------------------------------------------------------------
\* Durations: list --since and archive --older-than
\* ---------------------------------------------------------------------

\* Values of N: small ones, and the ones around the largest number of days,
\* hours and minutes that time.Duration holds.
DurationValues == {1, 2, 90, 106751, 106752, 213504, 2562047, 2562048, 153722867, 153722868}

DurationUnits == {"d", "h", "m"}

WellFormedDurations == {NatToText(n) \o <<u>> : n \in DurationValues, u \in DurationUnits}

OtherDurations ==
    { <<>>, <<"7">>, <<"d">>, <<"7", "x">>, <<"7", "D">>, <<"-", "1", "d">>,
      <<"1", ".", "5", "h">>, <<"7", "d", "d">>, <<" ", "7", "d">>, <<"d", "7">> }

DurationTexts == WellFormedDurations \cup OtherDurations

ParsedDurations == [s \in DurationTexts |-> parseDuration(s)]

ParsedCutoffs == [s \in DurationTexts |-> parseCutoff(s)]

DurationInit ==
    /\ RunIdle
    /\ file = NoFile /\ phase = "idle" /\ initArgs = <<>> /\ endArgs = <<>>
    /\ parsed = <<>> /\ writeErr = ""
    /\ ToolIdle

\* filterRuns parses --since for two command lines.
CallParseDuration ==
    /\ tool.op = "none"
    /\ \E a, b \in DurationTexts :
          tool' = [op |-> "duration", a |-> a, b |-> b,
                   ra |-> [ok |-> ParsedDurations[a].ok, d |-> ParsedDurations[a].ns,
                           t |-> ClockNow - ParsedDurations[a].val],
                   rb |-> [ok |-> ParsedDurations[b].ok, d |-> ParsedDurations[b].ns,
                           t |-> ClockNow - ParsedDurations[b].val]]
    /\ UNCHANGED <<disk, codecVars, runVars>>

\* Run parses --older-than for two command lines.
CallParseCutoff ==
    /\ tool.op = "none"
    /\ \E a, b \in DurationTexts :
          tool' = [op |-> "cutoff", a |-> a, b |-> b,
                   ra |-> ParsedCutoffs[a], rb |-> ParsedCutoffs[b]]
    /\ UNCHANGED <<disk, codecVars, runVars>>

DurationNext == CallParseDuration \/ CallParseCutoff
DurationSpec == DurationInit /\ [][DurationNext]_vars

\* A string of the form <N><d|h|m>, N one or more decimal digits.
IsDurationForm(s) ==
    /\ Len(s) >= 2
    /\ \A i \in 1..(Len(s) - 1) : s[i] \in {"0", "1", "2", "3", "4", "5", "6", "7", "8", "9"}
    /\ s[Len(s)] \in DurationUnits

ValueOf(s) == DigitsToNat(SubSeq(s, 1, Len(s) - 1), 0)

\* C28: for every string <N><d|h|m>, parseDuration returns a duration that
\* is not negative and parseCutoff an instant not later than now; a larger N
\* with the same unit gives no shorter duration and no later cutoff; every
\* other string is rejected with an error.
C28_NonNegativeAndOrdered ==
    tool.op \in {"duration", "cutoff"} =>
       /\ IsDurationForm(tool.a) =>
             /\ tool.ra.ok
             /\ ~Negative64(tool.ra.d)
             /\ tool.ra.t <= ClockNow
       /\ (/\ IsDurationForm(tool.a) /\ IsDurationForm(tool.b)
           /\ tool.a[Len(tool.a)] = tool.b[Len(tool.b)]
           /\ ValueOf(tool.a) <= ValueOf(tool.b)) =>
             /\ ~Less64(tool.rb.d, tool.ra.d)
             /\ tool.rb.t <= tool.ra.t
       /\ ~IsDurationForm(tool.a) => ~tool.ra.ok

\* 106752 days is 2^63 nanoseconds and more: the product has wrapped, the
\* duration is negative and shorter than that of one day, and the cutoff is
\* after now.
C28_WrappedBelowZero ==
    /\ tool.op = "cutoff"
    /\ tool.a = <<"1", "d">>
    /\ tool.b = <<"1", "0", "6", "7", "5", "2", "d">>
    /\ tool.ra.ok /\ tool.rb.ok
    /\ Negative64(tool.rb.d)
    /\ Less64(tool.rb.d, tool.ra.d)
    /\ tool.rb.t > ClockNow

\* What holds: every other string is rejected, and up to 106751 days, hours
\* or minutes the duration is not negative and grows with N.
C28_OrderedInRange ==
    tool.op \in {"duration", "cutoff"} =>
       /\ ~IsDurationForm(tool.a) => ~tool.ra.ok
       /\ (IsDurationForm(tool.a) /\ ValueOf(tool.a) <= 106751) =>
             /\ tool.ra.ok
             /\ ~Negative64(tool.ra.d)
             /\ tool.ra.t <= ClockNow
       /\ (/\ IsDurationForm(tool.a) /\ IsDurationForm(tool.b)
           /\ tool.a[Len(tool.a)] = tool.b[Len(tool.b)]
           /\ ValueOf(tool.a) <= ValueOf(tool.b)
           /\ ValueOf(tool.b) <= 106751) =>
             /\ ~Less64(tool.rb.d, tool.ra.d)
             /\ tool.rb.t <= tool.ra.t

\* ---------------------------------------------------------------------
\* The names of run directories
\* ---------------------------------------------------------------------

\* HEAD as go-git reads it: a branch reference with its short name, or a
\* bare commit; the hash as hash.String() writes it, lower-case hexadecimal.
\* A reference name is not empty and holds no line break.
RefBytes == NameBytes \cup {"_"}

HeadNames == UNION {[1..n -> RefBytes] : n \in 1..MaxNameLen} \cup {<<"main">>}

HeadHashes == {FullHash, <<"00fade0", "9c1b2a4ad32037a036d71e03f5a926255">>}

Heads ==
    [isBranch : {TRUE}, short : HeadNames, hash : HeadHashes]
       \cup [isBranch : {FALSE}, short : {<<"HEAD">>}, hash : HeadHashes]

\* GetRepoStatus: the branch is the short name of HEAD or the sentinel for a
\* detached HEAD, the short hash the first seven bytes of the hash.
GetRepoStatus(head) ==
    [IsValid |-> TRUE, IsDirty |-> FALSE,
     Branch |-> IF head.isBranch THEN head.short ELSE <<"detached-HEAD">>,
     ShortHash |-> <<head.hash[1]>>, FullHash |-> head.hash]

NameInit ==
    /\ RunIdle
    /\ file = NoFile /\ phase = "idle" /\ initArgs = <<>> /\ endArgs = <<>>
    /\ parsed = <<>> /\ writeErr = ""
    /\ ToolIdle

\* Main names the run directory of a run started now.
CallDirName ==
    /\ tool.op = "none"
    /\ \E head \in Heads, i \in 1..Len(RunStarts) :
          LET repo == GetRepoStatus(head)
          IN  tool' = [op |-> "dirName", repo |-> repo, startTime |-> RunStarts[i],
                       dirName |-> DirNameOf(RunStarts[i], repo.Branch, repo.ShortHash)]
    /\ UNCHANGED <<disk, codecVars, runVars>>

\* findRuns meets the directory.
CallMatch ==
    /\ tool.op = "dirName"
    /\ tool' = [op |-> "matched", repo |-> tool.repo, startTime |-> tool.startTime,
                dirName |-> tool.dirName, matches |-> MatchesRunPattern(tool.dirName)]
    /\ UNCHANGED <<disk, codecVars, runVars>>

NameNext == CallDirName \/ CallMatch
NameSpec == NameInit /\ [][NameNext]_vars

\* C29: every directory name Main makes of the start time, the sanitized
\* branch and the short hash matches the pattern of findRuns, for every
\* branch and hash GetRepoStatus returns, the detached-HEAD sentinel and
\* branches with '/' or '_' included.
C29_GeneratedNameMatches ==
    /\ tool.op = "dirName" => MatchesRunPattern(tool.dirName)
    /\ tool.op = "matched" => tool.matches

\* The name of a run on a branch with a slash and an underscore has been
\* matched.
C29_SlashAndUnderscoreMatched ==
    /\ tool.op = "matched"
    /\ tool.repo.Branch = <<"a", "/", "_">>
    /\ tool.dirName = FormatStamp(tool.startTime) \o <<"_", "a", "-", "_", "_">> \o tool.repo.ShortHash
    /\ tool.matches

\* ---------------------------------------------------------------------
\* The finalized record and the value Main returns
\* ---------------------------------------------------------------------

\* C30: in every record Main has finalized, Interrupted is true only if
\* the exit status is 130; and Main returns nil only when the recorded exit
\* status is 0 and the run was not interrupted.
C30_InterruptedOnlyWith130 ==
    /\ Appended => (Recorded.Interrupted => Recorded.ExitStatus = ExitInterrupted)
    /\ (MainReturned /\ ret = "") =>
          /\ Appended
          /\ Recorded.ExitStatus = 0
          /\ ~Recorded.Interrupted
          /\ ~loc.interrupted

\* Main has returned the error of a failed command after an interrupted run
\* whose child had ended with 0; the record says interrupted and 130.
C30_InterruptedRecordedAs130 ==
    /\ MainReturned
    /\ ret = ErrCommand
    /\ Appended
    /\ hist.path = "signal"
    /\ waiter.err.kind = "nil"
    /\ Recorded.Interrupted
    /\ Recorded.ExitStatus = ExitInterrupted

====
